---- MODULE Spec2Model ----
(***************************************************************************)
(* GEOLLM: the LLM client wrappers (app/openai_client.py and the           *)
(* HuggingFaceClient of app/config.py), their response cache and retry,    *)
(* the lazily built default clients, and the administrative CLI            *)
(* (app/commands.py).                                                      *)
(*                                                                         *)
(* The specifications share the variables:                                 *)
(*   SpecLLM     calls on constructed clients (cache, retry, parsing)      *)
(*   SpecHF      HuggingFaceClient.analyze_geospatial_query                *)
(*   SpecClient  construction of clients and the process-wide defaults     *)
(*   SpecCLI     clean-history and export-queries over QueryHistory        *)
(*   SpecAdmin   the commands over User, UserProfile and ApiKey            *)
(*   SpecCelery  the beat schedule and the task routes of celery_app.py    *)
(*   SpecWeb     HTTP errors in the application of create_app              *)
(*   SpecKey     the cache key of pairs of get_chat_completion calls       *)
(*   SpecShared  two requests at once on one cache                         *)
(*   SpecRace    create-admin from two shells at once                      *)
(*   SpecBoot    create_app and its Earth Engine thread (__init__.py)      *)
(*   SpecConfig  the configuration classes of config3.py and config.py     *)
(***************************************************************************)
EXTENDS Integers, Sequences, FiniteSets, TLC

VARIABLES
    \* ---- LLM calls (openai_client.py, config.py:HuggingFaceClient)
    cacheEnabled,   \* current_app.config.get('LLM_CACHE_ENABLED', False)
    cache,          \* app.extensions.cache: key -> [resp, at] of the entries set
    now,            \* wall clock, seconds
    pc,             \* per thread: where it is inside get_chat_completion
    op,             \* per thread: the public method it is running / ran last
    attempt,        \* per thread: tenacity's attempt_number
    tried,          \* per thread: the provider's answers to this invocation's calls
    result,         \* per thread: decorated_function's local `result`
    hit,            \* per thread: what the invocation's last cache.get found, and when
    ret,            \* per thread: how the public method ended
    provider,       \* what the provider has been asked so far (see ProviderAtRest)
    \* ---- client construction (OpenAIClient.__init__, get_openai_client, ...)
    environ,        \* os.environ: variable name -> value ("" when unset)
    config,         \* current_app.config: name -> value ("" when unset)
    clients,        \* the client objects that exist
    defaultClient,  \* module global default_client of each module (0 is None)
    gpc,            \* per thread: position inside get_*_client
    got,            \* per thread: how its last construction / get_*_client ended
    \* ---- CLI (commands.py)
    users,          \* rows of User (committed)
    profiles,       \* rows of UserProfile (committed)
    apiKeys,        \* rows of ApiKey (committed)
    history,        \* rows of QueryHistory (committed)
    utcnow,         \* datetime.utcnow(), in days
    exported,       \* the file the last command wrote (NoFile: none)
    cli,            \* what the last command was given, printed and found
    \* ---- Celery (celery_app.py)
    celery,         \* the Celery application create_celery_app returned: its conf
    beat,           \* the beat scheduler: the minute it is at, what it triggered
    queues,         \* queue name -> the task names placed on it
    \* ---- Flask (__init__.py)
    app,            \* the application create_app returned
    response,       \* the answer to the last HTTP error
    \* ---- two calls of get_chat_completion and their cache keys
    calls,          \* the two calls
    cacheKeys,      \* the cache key decorated_function made for each
    \* ---- processes starting up
    proc,           \* per operator shell: where its create-admin run is
    boot,           \* create_app under way, and its Earth Engine thread
    settings        \* the configuration class a config module handed out

llmVars    == <<cacheEnabled, cache, now, pc, op, attempt, tried, result, hit, ret, provider>>
clientVars == <<environ, config, clients, defaultClient, gpc, got>>
cliVars    == <<users, profiles, apiKeys, history, utcnow, exported, cli>>
celeryVars == <<celery, beat, queues>>
webVars    == <<app, response>>
keyVars    == <<calls, cacheKeys>>
bootVars   == <<proc, boot, settings>>
appVars    == <<celeryVars, webVars, keyVars, bootVars>>
vars       == <<llmVars, clientVars, cliVars, appVars>>

(***************************************************************************)
(* Bounds of the model.                                                    *)
(***************************************************************************)
MaxProviderCalls == 3     \* provider calls in one run
ClockStep        == 300   \* seconds the clock advances in one tick
MaxNow           == 600   \* the clock stops here
MaxClients       == 3     \* client objects constructed in one run
MaxRows          == 2     \* QueryHistory rows in the table
MaxDay           == 2     \* today; rows were created on days 0..MaxDay
MaxKeys          == 2     \* ApiKey rows created in one run

(***************************************************************************)
(* Program constants.                                                      *)
(***************************************************************************)
StopAfterAttempt     == 3     \* stop_after_attempt(3)
CACHE_DEFAULT_TIMEOUT == 300  \* Config.CACHE_DEFAULT_TIMEOUT, seconds
DefaultExpires       == 90    \* --expires of create-api-key, days

None == ""                    \* Python None / unset, for string-valued things
Truthy(s) == s # ""           \* bool(s) of a string or None

(***************************************************************************)
(* Texts a model answers with, as token sequences: "{" and "}" are the     *)
(* braces HuggingFaceClient.analyze_geospatial_query searches for.         *)
(***************************************************************************)
FullJson    == <<"{", "location,time_period,data_type,parameters", "}">>
PartialJson == <<"{", "location", "}">>
Prose       == <<"prose">>
Malformed   == <<"{", "location">>
Wrapped     == <<"prose", "{", "location,time_period,data_type,parameters", "}", "prose">>

IntentKeys == {"location", "time_period", "data_type", "parameters"}

\* the fallback both analyze_geospatial_query methods return
DefaultStructure ==
    [location |-> "None", time_period |-> "None", data_type |-> "None", parameters |-> "{}"]

NoDict == [k \in {} |-> ""]

\* json.loads(text): the dict the text denotes, or JSONDecodeError
JsonLoads(text) ==
    CASE text = FullJson ->
           [ok |-> TRUE,
            value |-> [location |-> "Paris", time_period |-> "2020",
                       data_type |-> "ndvi", parameters |-> "{}"]]
      [] text = PartialJson ->
           [ok |-> TRUE, value |-> [location |-> "Paris"]]
      [] OTHER -> [ok |-> FALSE, value |-> NoDict]

(***************************************************************************)
(* Exceptions, by class name.  Bases(e) is the set of classes e is an      *)
(* instance of.  The openai classes are those of the SDK generation that   *)
(* has openai.chat.completions.create and openai.APITimeoutError: there    *)
(* APIError is the base of every API error, APITimeoutError derives from   *)
(* APIConnectionError, and the HTTP status errors (401, 5xx) derive from   *)
(* APIStatusError.                                                         *)
(***************************************************************************)
Bases(e) ==
    CASE e = "APITimeoutError"     -> {"APITimeoutError", "APIConnectionError", "APIError", "Exception"}
      [] e = "APIConnectionError"  -> {"APIConnectionError", "APIError", "Exception"}
      [] e = "InternalServerError" -> {"InternalServerError", "APIStatusError", "APIError", "Exception"}
      [] e = "AuthenticationError" -> {"AuthenticationError", "APIStatusError", "APIError", "Exception"}
      [] e = "JSONDecodeError"     -> {"JSONDecodeError", "ValueError", "Exception"}
      [] e = "InvalidURL"          -> {"InvalidURL", "RequestException", "ValueError", "Exception"}
      [] e = "HTTPError"           -> {"HTTPError", "RequestException", "Exception"}
      [] OTHER                     -> {e, "Exception"}

IsInstance(e, classes) == Bases(e) \cap classes # {}

\* what the provider can fail with
TransientErrors == {"APITimeoutError", "APIConnectionError", "InternalServerError"}
ProviderErrors  == TransientErrors \cup {"AuthenticationError"}

\* retry=retry_if_exception_type((APITimeoutError, APIError, APIConnectionError))
RetryTypes == {"APITimeoutError", "APIError", "APIConnectionError"}
ShouldRetry(e) == IsInstance(e, RetryTypes)

(***************************************************************************)
(* One outcome of openai.chat.completions.create: an exception (err) or a  *)
(* response object.  sub says whether the object supports                  *)
(* response['usage']['total_tokens'] (line 134); the SDK's typed           *)
(* ChatCompletion does not, a mapping-like object does.                    *)
(***************************************************************************)
OATexts == {FullJson, PartialJson, Prose, Malformed}
OAOutcomes ==
    {[err |-> e, text |-> <<>>, sub |-> FALSE] : e \in ProviderErrors}
    \cup {[err |-> "", text |-> x, sub |-> s] : x \in OATexts, s \in BOOLEAN}

\* req: the request the provider answered with this response (lines 117-127)
NoRequest == [model |-> None, messages |-> None, temperature |-> None,
              max_tokens |-> None]
NoResp == [id |-> 0, text |-> <<>>, req |-> NoRequest]

(***************************************************************************)
(* The cache key of cache_llm_response (lines 31-38).  Python values are   *)
(* modelled by their str(); args[0] is self, whose str() is the default    *)
(* object repr and so names the instance's address.                        *)
(***************************************************************************)
ObjRepr(c) == "<OpenAIClient object at " \o c.addr \o ">"

\* sorted() of the parameter names of get_chat_completion
ParamOrder ==
    <<"frequency_penalty", "max_tokens", "messages", "model", "presence_penalty",
      "stop", "temperature", "top_p", "user">>

RECURSIVE Join(_)
Join(parts) ==
    IF Len(parts) = 0 THEN ""
    ELSE IF Len(parts) = 1 THEN parts[1]
    ELSE parts[1] \o ":" \o Join(Tail(parts))

KeyParts(call) ==
    LET Given(n) == n \in DOMAIN call.kwargs
        names == SelectSeq(ParamOrder, Given)
    IN  call.args \o [i \in 1..Len(names) |-> names[i] \o "=" \o call.kwargs[names[i]]]

\* hashlib.md5(...).hexdigest(): no two of the strings of this model collide
Md5(s) == "md5<" \o s \o ">"

CacheKey(call) == "llm_response:" \o Md5(Join(KeyParts(call)))

(***************************************************************************)
(* The calls of get_chat_completion the public methods make.               *)
(***************************************************************************)
Queries == {"q1", "q2"}

MessagesStr(system_prompt, prompt) ==
    "[" \o (IF Truthy(system_prompt)
            THEN "{'role': 'system', 'content': '" \o system_prompt \o "'}, "
            ELSE "")
        \o "{'role': 'user', 'content': '" \o prompt \o "'}]"

\* get_prompt_response (lines 166-181): everything by keyword
PromptCall(c, prompt, system_prompt, model, temperature, max_tokens) ==
    [args   |-> <<ObjRepr(c)>>,
     kwargs |-> [messages    |-> MessagesStr(system_prompt, prompt),
                 model       |-> model,
                 temperature |-> temperature,
                 max_tokens  |-> max_tokens]]

\* analyze_geospatial_query (lines 195-215)
AnalyzeCall(c, query) ==
    PromptCall(c, "Analyze this geospatial query: " \o query,
               "You are a geospatial analysis assistant.", "None", "0.2", "None")

\* a caller's own get_chat_completion(messages=[...])
ChatCall(c, query) ==
    [args |-> <<ObjRepr(c)>>, kwargs |-> [messages |-> MessagesStr(None, query)]]

CallOf(fn, c, query) ==
    IF fn = "analyze" THEN AnalyzeCall(c, query) ELSE ChatCall(c, query)

\* what get_chat_completion of client c sends for a call (lines 116-127):
\* `model or self.model`, and the defaults of the signature (lines 87-89)
\* for what the caller did not pass
Request(call, c) ==
    LET kw == call.kwargs
        Passed(n, default) == IF n \in DOMAIN kw THEN kw[n] ELSE default
    IN  [model       |-> IF Passed("model", "None") = "None" THEN c.model
                         ELSE kw.model,
         messages    |-> IF "messages" \in DOMAIN kw THEN kw.messages
                         ELSE call.args[2],
         temperature |-> Passed("temperature", "0.7"),
         max_tokens  |-> Passed("max_tokens", "None")]

\* line 28: the cache is used only when LLM_CACHE_ENABLED is set and true
\* mutant: the cache is used whatever the setting
UseCache_Always(enabled) == TRUE

UseCache(enabled) == enabled

\* lines 47-50: cache.set is reached only when f returned; an exception of
\* f (e is its class, "" for none) leaves decorated_function at line 47
\* mutant: the outcome is stored also when f raised
StoresResult_OnRaise(e, enabled) == enabled

StoresResult(e, enabled) == enabled /\ e = ""

(***************************************************************************)
(* app.extensions.cache as cache_llm_response uses it: set() stamps the    *)
(* entry, get() answers None once CACHE_DEFAULT_TIMEOUT has elapsed.       *)
(***************************************************************************)
\* mutant: entries never expire
CacheFresh_NoExpiry(c, key, t) == key \in DOMAIN c

CacheFresh(c, key, t) == key \in DOMAIN c /\ t < c[key].at + CACHE_DEFAULT_TIMEOUT

CacheGet(c, key, t) == IF CacheFresh(c, key, t) THEN c[key].resp ELSE NoResp

CacheSet(c, key, resp, t) == (key :> [resp |-> resp, at |-> t]) @@ c

(***************************************************************************)
(* How a public method ends.                                               *)
(***************************************************************************)
NoRet == [kind |-> "none", exc |-> "", cause |-> "", resp |-> NoResp, value |-> NoDict]
Return(resp, value) ==
    [kind |-> "return", exc |-> "", cause |-> "", resp |-> resp, value |-> value]
Raise(e, cause) ==
    [kind |-> "raise", exc |-> e, cause |-> cause, resp |-> NoResp, value |-> NoDict]

\* OpenAIClient.analyze_geospatial_query, lines 216-228, given the response
\* get_chat_completion returned
AnalyzeReturn(resp) ==
    LET parsed == JsonLoads(resp.text)
    IN  IF parsed.ok THEN Return(resp, parsed.value)
        ELSE Return(resp, DefaultStructure)

\* ... and given the exception e it raised: only JSONDecodeError is handled
AnalyzeRaise(e, cause) ==
    IF IsInstance(e, {"JSONDecodeError"}) THEN Return(NoResp, DefaultStructure)
    ELSE Raise(e, cause)

MethodReturn(fn, resp) == IF fn = "analyze" THEN AnalyzeReturn(resp) ELSE Return(resp, NoDict)
MethodRaise(fn, e, cause) == IF fn = "analyze" THEN AnalyzeRaise(e, cause) ELSE Raise(e, cause)

(***************************************************************************)
(* tenacity's decision after attempt number n ended with exception e       *)
(* (lines 78-82): retry, give up with RetryError (reraise is not set), or  *)
(* let e through when the retry predicate rejects it.                      *)
(***************************************************************************)
\* mutants: one attempt too many; reraise=True
RetryDecision_OneMore(e, n) ==
    IF ~ShouldRetry(e) THEN "reraise"
    ELSE IF n > StopAfterAttempt THEN "retry_error"
    ELSE "retry"
RetryDecision_Reraise(e, n) ==
    IF ~ShouldRetry(e) THEN "reraise"
    ELSE IF n >= StopAfterAttempt THEN "reraise"
    ELSE "retry"

RetryDecision(e, n) ==
    IF ~ShouldRetry(e) THEN "reraise"
    ELSE IF n >= StopAfterAttempt THEN "retry_error"
    ELSE "retry"

\* the body of get_chat_completion (lines 116-143) on a provider outcome:
\* the exception it raises, "" when it returns the response
BodyRaises(out) ==
    IF out.err # "" THEN out.err
    ELSE IF ~out.sub THEN "TypeError"      \* response['usage'] at line 134
    ELSE ""

(***************************************************************************)
(* Client objects.                                                         *)
(***************************************************************************)
OpenAIClientObj(id, key, model) ==
    [id |-> id, kind |-> "openai", api_key |-> key, model |-> model,
     addr |-> <<"0x01", "0x02", "0x03", "0x04", "0x05", "0x06">>[id]]
HuggingFaceClientObj(id, key) ==
    [id |-> id, kind |-> "hf", api_key |-> key,
     model |-> "mistralai/Mistral-7B-Instruct-v0.2",
     addr |-> <<"0x01", "0x02", "0x03", "0x04", "0x05", "0x06">>[id]]

ClientById(id) == CHOOSE c \in clients : c.id = id

NoOp  == [fn |-> "", self |-> 0, query |-> "", key |-> ""]
\* served: the entry was the answer; expired: get found an entry too old
NoHit == [served |-> FALSE, storedAt |-> 0, at |-> 0, expired |-> FALSE]

(***************************************************************************)
(* The provider's side of openai.chat.completions.create: n calls so far,  *)
(* how many of them per cache key of the calling invocation (the k-th call *)
(* for a key answers with response id k), and whether every call so far    *)
(* timed out / was answered with a response.                               *)
(***************************************************************************)
ProviderAtRest == [n |-> 0, calls |-> << >>, allTimeout |-> TRUE, noError |-> TRUE]

CallsFor(key) == IF key \in DOMAIN provider.calls THEN provider.calls[key] ELSE 0

Asked(p, key, out) ==
    [n          |-> p.n + 1,
     calls      |-> (key :> (IF key \in DOMAIN p.calls THEN p.calls[key] + 1 ELSE 1))
                    @@ p.calls,
     allTimeout |-> p.allTimeout /\ out.err = "APITimeoutError",
     noError    |-> p.noError /\ out.err = ""]

(***************************************************************************)
(* A thread enters chat = get_chat_completion(messages=...) or             *)
(* analyze = analyze_geospatial_query(query) on an OpenAI client; tenacity *)
(* starts attempt 1 (line 78).                                             *)
(***************************************************************************)
Start(t) ==
    /\ pc[t] = "idle"
    /\ \E fn \in {"chat", "analyze"}, c \in {x \in clients : x.kind = "openai"},
          q \in Queries :
         op' = [op EXCEPT ![t] = [fn |-> fn, self |-> c.id, query |-> q,
                                  key |-> CacheKey(CallOf(fn, c, q))]]
    /\ pc' = [pc EXCEPT ![t] = "lookup"]
    /\ attempt' = [attempt EXCEPT ![t] = 1]
    /\ tried' = [tried EXCEPT ![t] = <<>>]
    /\ result' = [result EXCEPT ![t] = NoResp]
    /\ hit' = [hit EXCEPT ![t] = NoHit]
    /\ ret' = [ret EXCEPT ![t] = NoRet]
    /\ UNCHANGED <<cacheEnabled, cache, now, provider, clientVars, cliVars, appVars>>

(***************************************************************************)
(* decorated_function, lines 26-44: with caching off go straight to f;     *)
(* otherwise cache.get, and a truthy entry is the answer.                  *)
(***************************************************************************)
CacheLookup(t) ==
    /\ pc[t] = "lookup"
    /\ LET key    == op[t].key
           cached == CacheGet(cache, key, now)
       IN  IF UseCache(cacheEnabled) /\ cached # NoResp
           THEN /\ pc' = [pc EXCEPT ![t] = "idle"]
                /\ ret' = [ret EXCEPT ![t] = MethodReturn(op[t].fn, cached)]
                /\ hit' = [hit EXCEPT ![t] =
                             [served |-> TRUE, storedAt |-> cache[key].at,
                              at |-> now, expired |-> FALSE]]
           ELSE /\ pc' = [pc EXCEPT ![t] = "call"]
                /\ ret' = ret
                /\ hit' = [hit EXCEPT ![t] =
                             [served |-> FALSE, storedAt |-> 0, at |-> now,
                              expired |-> @.expired
                                          \/ (UseCache(cacheEnabled)
                                              /\ key \in DOMAIN cache)]]
    /\ UNCHANGED <<cacheEnabled, cache, now, op, attempt, tried, result, provider,
                   clientVars, cliVars, appVars>>

(***************************************************************************)
(* The call of f at lines 29 / 47: the body of get_chat_completion         *)
(* calls the provider once.  An exception leaves through the cache wrapper *)
(* (nothing stored) to tenacity, which retries, gives up or lets it pass.  *)
(***************************************************************************)
ProviderCall(t) ==
    /\ pc[t] = "call"
    /\ provider.n < MaxProviderCalls
    /\ \E out \in OAOutcomes :
         LET id   == CallsFor(op[t].key) + 1
             c    == ClientById(op[t].self)
             resp == [id |-> id, text |-> out.text,
                      req |-> Request(CallOf(op[t].fn, c, op[t].query), c)]
             e    == BodyRaises(out)
             dec  == RetryDecision(e, attempt[t])
         IN  /\ provider' = Asked(provider, op[t].key, out)
             /\ tried' = [tried EXCEPT ![t] = Append(@, [err |-> out.err, text |-> out.text])]
             /\ IF StoresResult(e, UseCache(cacheEnabled))
                THEN /\ result' = [result EXCEPT ![t] = resp]
                     /\ attempt' = attempt
                     /\ pc' = [pc EXCEPT ![t] = "store"]
                     /\ ret' = ret
                ELSE IF e = ""
                THEN /\ result' = [result EXCEPT ![t] = resp]
                     /\ attempt' = attempt
                     /\ pc' = [pc EXCEPT ![t] = "idle"]
                     /\ ret' = [ret EXCEPT ![t] = MethodReturn(op[t].fn, resp)]
                ELSE /\ result' = result
                     /\ IF dec = "retry"
                        THEN /\ attempt' = [attempt EXCEPT ![t] = @ + 1]
                             /\ pc' = [pc EXCEPT ![t] = "lookup"]
                             /\ ret' = ret
                        ELSE /\ attempt' = attempt
                             /\ pc' = [pc EXCEPT ![t] = "idle"]
                             /\ ret' = [ret EXCEPT ![t] =
                                          IF dec = "retry_error"
                                          THEN MethodRaise(op[t].fn, "RetryError", e)
                                          ELSE MethodRaise(op[t].fn, e, e)]
    /\ UNCHANGED <<cacheEnabled, cache, now, op, hit, clientVars, cliVars, appVars>>

(***************************************************************************)
(* decorated_function, lines 49-52: cache.set(cache_key, result), return.  *)
(***************************************************************************)
CacheStore(t) ==
    /\ pc[t] = "store"
    /\ cache' = CacheSet(cache, op[t].key, result[t], now)
    /\ pc' = [pc EXCEPT ![t] = "idle"]
    /\ ret' = [ret EXCEPT ![t] = MethodReturn(op[t].fn, result[t])]
    /\ UNCHANGED <<cacheEnabled, now, op, attempt, tried, result, hit, provider,
                   clientVars, cliVars, appVars>>

\* time passes
Tick ==
    /\ now + ClockStep <= MaxNow
    /\ now' = now + ClockStep
    /\ UNCHANGED <<cacheEnabled, cache, pc, op, attempt, tried, result, hit, ret,
                   provider, clientVars, cliVars, appVars>>

(***************************************************************************)
(* HuggingFaceClient (config.py).  One outcome of query() as               *)
(* get_chat_completion hands it on: an exception of requests, the          *)
(* generated text, or (isstr FALSE) a list item without 'generated_text',  *)
(* which is returned as it is and is no string.                            *)
(***************************************************************************)
BracedProse == <<"{", "prose", "}">>
HFTexts == {FullJson, PartialJson, Prose, Malformed, Wrapped, BracedProse}
HFOutcomes ==
    {[err |-> e, text |-> <<>>, isstr |-> FALSE] : e \in {"HTTPError", "InvalidURL"}}
    \cup {[err |-> "", text |-> x, isstr |-> TRUE] : x \in HFTexts}
    \cup {[err |-> "", text |-> <<>>, isstr |-> FALSE]}

\* str.find / str.rfind: 0-based index of the token, -1 when absent
PyFind(text, tok) ==
    LET at == {i \in 1..Len(text) : text[i] = tok}
    IN  IF at = {} THEN -1 ELSE (CHOOSE i \in at : \A j \in at : i <= j) - 1
PyRFind(text, tok) ==
    LET at == {i \in 1..Len(text) : text[i] = tok}
    IN  IF at = {} THEN -1 ELSE (CHOOSE i \in at : \A j \in at : i >= j) - 1
\* text[a:b] for 0 <= a < b <= len(text)
PySlice(text, a, b) == SubSeq(text, a + 1, b)

\* HuggingFaceClient.analyze_geospatial_query, lines 419-445
HFAnalyzeResult(out) ==
    IF out.err # ""
    THEN IF IsInstance(out.err, {"JSONDecodeError", "ValueError"})
         \* the handler formats `response`, which line 420 never bound
         THEN Raise("UnboundLocalError", out.err)
         ELSE Raise(out.err, out.err)
    ELSE IF ~out.isstr
    THEN Raise("AttributeError", "AttributeError")    \* response.find at line 424
    ELSE LET start_idx == PyFind(out.text, "{")
             end_idx   == PyRFind(out.text, "}") + 1
             json_str  == IF start_idx >= 0 /\ end_idx > start_idx
                          THEN PySlice(out.text, start_idx, end_idx)
                          ELSE out.text
             parsed    == JsonLoads(json_str)
         IN  IF parsed.ok THEN Return(NoResp, parsed.value)
             ELSE Return(NoResp, DefaultStructure)

HFAnalyze(t) ==
    /\ pc[t] = "idle"
    /\ \E c \in {x \in clients : x.kind = "hf"}, q \in Queries, out \in HFOutcomes :
         /\ op' = [op EXCEPT ![t] = [fn |-> "hf_analyze", self |-> c.id, query |-> q,
                                     key |-> ""]]
         /\ ret' = [ret EXCEPT ![t] = HFAnalyzeResult(out)]
    /\ attempt' = [attempt EXCEPT ![t] = 1]
    /\ tried' = [tried EXCEPT ![t] = <<>>]
    /\ result' = [result EXCEPT ![t] = NoResp]
    /\ hit' = [hit EXCEPT ![t] = NoHit]
    /\ UNCHANGED <<cacheEnabled, cache, now, pc, provider, clientVars, cliVars, appVars>>

(***************************************************************************)
(* Initial values of each part.                                            *)
(***************************************************************************)
LLMIdle(T) ==
    /\ now = 0
    /\ pc = [t \in T |-> "idle"]
    /\ op = [t \in T |-> NoOp]
    /\ attempt = [t \in T |-> 1]
    /\ tried = [t \in T |-> <<>>]
    /\ result = [t \in T |-> NoResp]
    /\ hit = [t \in T |-> NoHit]
    /\ ret = [t \in T |-> NoRet]
    /\ provider = ProviderAtRest

LLMAtRest(T) == cache = << >> /\ LLMIdle(T)

NoGot == [fn |-> "", kind |-> "none", exc |-> "", client |-> 0]

ClientsAtRest(T) ==
    /\ gpc = [t \in T |-> "idle"]
    /\ got = [t \in T |-> NoGot]

\* user is --user or --username; name, email, password, format the options
\* of those names; before (QueryHistory), usersBefore, profilesBefore and
\* keysBefore the tables the command found
NoCli == [cmd |-> "", days |-> 0, dry_run |-> FALSE, user |-> None, confirm |-> FALSE,
          cutoff |-> 0, before |-> {}, said |-> <<>>, deleted |-> 0, raised |-> FALSE,
          email |-> None, password |-> None, name |-> None, format |-> None,
          count |-> 0, usersBefore |-> {}, profilesBefore |-> {}, keysBefore |-> {},
          rolledBack |-> FALSE]

NoFile == [format |-> None, records |-> <<>>]

\* no Celery application, no Flask application, no call looked at
NoCelery   == [app |-> FALSE, beat_schedule |-> {}, task_routes |-> <<>>]
BeatAtRest == [next |-> 0, fired |-> << >>, last |-> << >>, gaps |-> << >>]
NoApp      == [config_name |-> None, agent_api |-> FALSE, error_handlers |-> << >>]
NoResponse == [path |-> <<>>, error |-> 0, status |-> 0, format |-> None, by |-> None]

\* no create-admin under way in either shell, create_app not called, no
\* configuration class looked up
Procs      == {"p1", "p2"}
NoProc     == [pc |-> "idle", username |-> None, email |-> None, password |-> None,
               said |-> <<>>, raised |-> FALSE, added |-> FALSE, id |-> 0]
NoBoot     == [pc |-> "none", config_name |-> None, handler |-> None, ee |-> "none",
               eeAtReturn |-> "none", log |-> <<>>]
NoSettings == [module |-> None, name |-> None, attrs |-> << >>]

BootAtRest ==
    /\ proc = [p \in Procs |-> NoProc]
    /\ boot = NoBoot
    /\ settings = NoSettings

AppAtRest ==
    /\ celery = NoCelery
    /\ beat = BeatAtRest
    /\ queues = << >>
    /\ app = NoApp
    /\ response = NoResponse
    /\ calls = << >>
    /\ cacheKeys = << >>
    /\ BootAtRest

CLIAtRest ==
    /\ users = {}
    /\ profiles = {}
    /\ apiKeys = {}
    /\ history = {}
    /\ utcnow = 0
    /\ exported = NoFile
    /\ cli = NoCli

\* what a deployment that ran with LLM_CACHE_ENABLED on left in the Redis
\* cache (config.py line 84) for get_chat_completion(messages=[q1])
LeftoverCache ==
    LET c == OpenAIClientObj(1, "sk-env", "gpt-3.5-turbo")
    IN  CacheSet(<< >>, CacheKey(ChatCall(c, "q1")),
                 [id |-> 1, text |-> FullJson, req |-> Request(ChatCall(c, "q1"), c)],
                 0)

\* the LLM calls start with both clients constructed, each with its key;
\* one request at a time.  A start with caching off may find the cache as
\* an earlier run with caching on left it.
InitLLM ==
    /\ cacheEnabled \in BOOLEAN
    /\ cache \in (IF cacheEnabled THEN {<< >>} ELSE {<< >>, LeftoverCache})
    /\ LLMIdle({"t1"})
    /\ environ = [OPENAI_API_KEY |-> "sk-env", HUGGINGFACE_API_KEY |-> "hf-env"]
    /\ config = [OPENAI_API_KEY |-> None, HUGGINGFACE_API_KEY |-> None]
    /\ clients = {OpenAIClientObj(1, "sk-env", "gpt-3.5-turbo"),
                  HuggingFaceClientObj(2, "hf-env")}
    /\ defaultClient = [openai |-> 1, hf |-> 2]
    /\ ClientsAtRest({"t1"})
    /\ AppAtRest
    /\ CLIAtRest

NextLLM ==
    \/ \E t \in DOMAIN pc : Start(t)
    \/ \E t \in DOMAIN pc : CacheLookup(t)
    \/ \E t \in DOMAIN pc : ProviderCall(t)
    \/ \E t \in DOMAIN pc : CacheStore(t)
    \/ Tick

SpecLLM == InitLLM /\ [][NextLLM]_vars

\* HuggingFaceClient.analyze_geospatial_query alone, from two web threads
InitHF ==
    /\ cacheEnabled \in BOOLEAN
    /\ LLMAtRest({"t1", "t2"})
    /\ environ = [OPENAI_API_KEY |-> "sk-env", HUGGINGFACE_API_KEY |-> "hf-env"]
    /\ config = [OPENAI_API_KEY |-> None, HUGGINGFACE_API_KEY |-> None]
    /\ clients = {OpenAIClientObj(1, "sk-env", "gpt-3.5-turbo"),
                  HuggingFaceClientObj(2, "hf-env")}
    /\ defaultClient = [openai |-> 1, hf |-> 2]
    /\ ClientsAtRest({"t1", "t2"})
    /\ AppAtRest
    /\ CLIAtRest

NextHF == \E t \in DOMAIN pc : HFAnalyze(t)

SpecHF == InitHF /\ [][NextHF]_vars

(***************************************************************************)
(* Construction of the clients and the process-wide defaults.              *)
(***************************************************************************)
\* a or b or c
FirstTruthy(a, b, c) == IF Truthy(a) THEN a ELSE IF Truthy(b) THEN b ELSE c

\* OpenAIClient.__init__, lines 68-74: the key it ends with; "" makes it raise
OpenAIKey(api_key) ==
    FirstTruthy(api_key, environ.OPENAI_API_KEY, config.OPENAI_API_KEY)

\* HuggingFaceClient.__init__, config.py lines 261-266: a missing key is
\* logged as a warning and the object is built all the same
HuggingFaceKey(api_key) ==
    FirstTruthy(api_key, environ.HUGGINGFACE_API_KEY, config.HUGGINGFACE_API_KEY)

OpenAIConstructs(api_key) == Truthy(OpenAIKey(api_key))
HuggingFaceConstructs(api_key) == TRUE

NextId == Cardinality(clients) + 1

\* how a call of fn ended: the client it returned, or the exception
Got(fn, id) == [fn |-> fn, kind |-> "return", exc |-> "", client |-> id]
GotRaise(fn, e) == [fn |-> fn, kind |-> "raise", exc |-> e, client |-> 0]

\* the name of the getter of each module
Getter(kind) == IF kind = "openai" THEN "get_openai_client" ELSE "get_huggingface_client"

\* OpenAIClient(api_key=...) called directly
NewOpenAIClient(t) ==
    /\ gpc[t] = "idle"
    /\ Cardinality(clients) < MaxClients
    /\ \E api_key \in {None, "sk-arg"} :
         IF OpenAIConstructs(api_key)
         THEN /\ clients' = clients \cup
                     {OpenAIClientObj(NextId, OpenAIKey(api_key), "gpt-3.5-turbo")}
              /\ got' = [got EXCEPT ![t] = Got("OpenAIClient", NextId)]
         ELSE /\ clients' = clients
              /\ got' = [got EXCEPT ![t] = GotRaise("OpenAIClient", "ValueError")]
    /\ UNCHANGED <<environ, config, defaultClient, gpc, llmVars, cliVars, appVars>>

\* HuggingFaceClient(api_key=...) called directly
NewHuggingFaceClient(t) ==
    /\ gpc[t] = "idle"
    /\ Cardinality(clients) < MaxClients
    /\ \E api_key \in {None, "hf-arg"} :
         IF HuggingFaceConstructs(api_key)
         THEN /\ clients' = clients \cup
                     {HuggingFaceClientObj(NextId, HuggingFaceKey(api_key))}
              /\ got' = [got EXCEPT ![t] = Got("HuggingFaceClient", NextId)]
         ELSE /\ clients' = clients
              /\ got' = [got EXCEPT ![t] = GotRaise("HuggingFaceClient", "ValueError")]
    /\ UNCHANGED <<environ, config, defaultClient, gpc, llmVars, cliVars, appVars>>

\* get_openai_client / get_huggingface_client: `if default_client is None`
GetClientCheck(t, kind) ==
    /\ gpc[t] = "idle"
    /\ got' = [got EXCEPT ![t] = NoGot]
    /\ gpc' = [gpc EXCEPT ![t] =
                 IF defaultClient[kind] = 0 THEN kind \o "_construct"
                 ELSE kind \o "_return"]
    /\ UNCHANGED <<environ, config, clients, defaultClient, llmVars, cliVars, appVars>>

\* `default_client = OpenAIClient()` / `= HuggingFaceClient()`
GetClientConstruct(t, kind) ==
    /\ gpc[t] = kind \o "_construct"
    /\ Cardinality(clients) < MaxClients
    /\ IF (IF kind = "openai" THEN OpenAIConstructs(None)
           ELSE HuggingFaceConstructs(None))
       THEN /\ clients' = clients \cup
                   {IF kind = "openai"
                    THEN OpenAIClientObj(NextId, OpenAIKey(None), "gpt-3.5-turbo")
                    ELSE HuggingFaceClientObj(NextId, HuggingFaceKey(None))}
            /\ defaultClient' = [defaultClient EXCEPT ![kind] = NextId]
            /\ gpc' = [gpc EXCEPT ![t] = kind \o "_return"]
            /\ got' = got
       ELSE /\ clients' = clients
            /\ defaultClient' = defaultClient
            /\ gpc' = [gpc EXCEPT ![t] = "idle"]
            /\ got' = [got EXCEPT ![t] = GotRaise(Getter(kind), "ValueError")]
    /\ UNCHANGED <<environ, config, llmVars, cliVars, appVars>>

\* `return default_client`
GetClientReturn(t, kind) ==
    /\ gpc[t] = kind \o "_return"
    /\ got' = [got EXCEPT ![t] = Got(Getter(kind), defaultClient[kind])]
    /\ gpc' = [gpc EXCEPT ![t] = "idle"]
    /\ UNCHANGED <<environ, config, clients, defaultClient, llmVars, cliVars, appVars>>

\* a process starts with no client; each key is set or not where it is read
InitClient ==
    /\ cacheEnabled = TRUE
    /\ LLMAtRest({"t1", "t2"})
    /\ environ \in [OPENAI_API_KEY : {None, "sk-env"}, HUGGINGFACE_API_KEY : {None, "hf-env"}]
    /\ config \in [OPENAI_API_KEY : {None, "sk-cfg"}, HUGGINGFACE_API_KEY : {None, "hf-cfg"}]
    /\ clients = {}
    /\ defaultClient = [openai |-> 0, hf |-> 0]
    /\ ClientsAtRest({"t1", "t2"})
    /\ AppAtRest
    /\ CLIAtRest

NextClient ==
    \/ \E t \in DOMAIN gpc : NewOpenAIClient(t)
    \/ \E t \in DOMAIN gpc : NewHuggingFaceClient(t)
    \/ \E t \in DOMAIN gpc, kind \in {"openai", "hf"} : GetClientCheck(t, kind)
    \/ \E t \in DOMAIN gpc, kind \in {"openai", "hf"} : GetClientConstruct(t, kind)
    \/ \E t \in DOMAIN gpc, kind \in {"openai", "hf"} : GetClientReturn(t, kind)

SpecClient == InitClient /\ [][NextClient]_vars

(***************************************************************************)
(* clean-history (commands.py, lines 236-285).  A command runs alone, in   *)
(* one step.  Days are whole numbers; utcnow is today.                     *)
(***************************************************************************)
UserIds == {1, 2}
SeedUsers == {[id |-> 1, username |-> "alice", email |-> "alice@example.com",
               password |-> "hash(pw1)"],
              [id |-> 2, username |-> "bob", email |-> "bob@example.com",
               password |-> "hash(pw1)"]}

\* --user: not given (None; click hands '' to `if user:` the same way), the
\* name of a user, or a name no user has
UserOptions == {None, "alice", "bob", "carol"}
\* --days: from a cutoff after today to one before every row (as the default 30)
DaysOptions == (-1)..MaxDay

\* what a row can hold besides its id
RowValues == [user_id : UserIds, created_at : 0..MaxDay]
\* the other columns follow the id; the prompt of every second row has two lines
Row(id, v) ==
    [id |-> id, user_id |-> v.user_id, created_at |-> v.created_at,
     prompt |-> IF id % 2 = 0 THEN "rain in\nKenya" ELSE "map of Paris",
     duration_ms |-> 100 + id, is_favorited |-> (id = 1)]

\* mutant: a name nobody has finds the first row of the table
UserByName_FirstRow(name) ==
    IF (\E u \in users : u.username = name) \/ users = {}
    THEN {u \in users : u.username = name}
    ELSE {u \in users : \A v \in users : u.id <= v.id}

\* mutant: a name nobody has yields a User object that was never saved
UserByName_OrNew(name) ==
    IF \E u \in users : u.username = name
    THEN {u \in users : u.username = name}
    ELSE {[id |-> 0, username |-> name, email |-> None, password |-> None]}

\* User.query.filter_by(username=...).first(): the set of matches (at most one)
UserByName(name) == {u \in users : u.username = name}

\* mutant: rows created at the cutoff are taken too
Selected_Inclusive(rows, cutoff, user_ids, filtered) ==
    {r \in rows : r.created_at <= cutoff /\ (filtered => r.user_id \in user_ids)}

\* the rows the query of lines 247-256 selects
Selected(rows, cutoff, user_ids, filtered) ==
    {r \in rows : r.created_at < cutoff /\ (filtered => r.user_id \in user_ids)}

\* mutant: the flag is not looked at
DryRunReturns_Ignored(dry_run) == FALSE

\* `if dry_run:` at line 268 ends the command before anything is deleted
DryRunReturns(dry_run) == dry_run

\* cli.confirm: click.confirm was reached and answered yes
Ran(days, dry_run, user, confirm, cutoff, said, deleted, raised) ==
    [NoCli EXCEPT
       !.cmd = "clean-history", !.days = days, !.dry_run = dry_run, !.user = user,
       !.confirm = confirm, !.cutoff = cutoff, !.before = history,
       !.usersBefore = users, !.profilesBefore = profiles, !.keysBefore = apiKeys,
       !.said = said, !.deleted = deleted,
       !.raised = raised, !.rolledBack = raised]

CleanHistory(days, dry_run, user) ==
    LET cutoff_date == utcnow - days
        user_obj    == UserByName(user)
        sel         == Selected(history, cutoff_date,
                                {u.id : u \in user_obj}, Truthy(user))
        count       == Cardinality(sel)
        End(confirm, said, rows, deleted, raised) ==
            /\ history' = rows
            /\ exported' = NoFile
            /\ cli' = Ran(days, dry_run, user, confirm, cutoff_date,
                          said, deleted, raised)
    IN  /\ IF Truthy(user) /\ user_obj = {}
           THEN End(FALSE, <<"not found">>, history, 0, FALSE)
           ELSE IF count = 0
           THEN End(FALSE, <<"no queries found">>, history, 0, FALSE)
           ELSE IF DryRunReturns(dry_run)
           THEN End(FALSE, <<"will delete", "dry run">>, history, 0, FALSE)
           ELSE \* click.confirm: the operator answers
                \/ End(FALSE, <<"will delete", "cancelled">>, history, 0, FALSE)
                \* query.delete() and commit: the database does it, or raises
                \* and the handler rolls back and raises again
                \/ End(TRUE, <<"will delete", "deleted">>, history \ sel,
                       Cardinality(sel), FALSE)
                \/ End(TRUE, <<"will delete", "error">>, history, 0, TRUE)
        /\ UNCHANGED <<users, profiles, apiKeys, utcnow, llmVars, clientVars, appVars>>

(***************************************************************************)
(* export-queries (commands.py, lines 288-353).  A file is the sequence of *)
(* the rows handed to csv.writer.writerow (or of the dicts json.dump got); *)
(* exported is the file the run wrote, NoFile when it wrote none.          *)
(***************************************************************************)
FormatOptions == {"json", "csv"}

\* query.all(): the rows as the database returns them, by id
RECURSIVE ById(_)
ById(rows) ==
    IF rows = {} THEN <<>>
    ELSE LET r == CHOOSE r \in rows : \A q \in rows : r.id <= q.id
         IN  <<r>> \o ById(rows \ {r})

\* str() of the values csv.writer is given
PyInt(n)  == ToString(n)
PyBool(b) == IF b THEN "True" ELSE "False"
\* datetime.isoformat() of a day
Isoformat(d) == "2024-01-0" \o ToString(d + 1) \o "T00:00:00"

\* line breaks inside a field: csv.writer quotes the field and writes them
LineBreaks(field) == IF field = "rain in\nKenya" THEN 1 ELSE 0

CsvHeader == <<"id", "user_id", "prompt", "created_at", "duration_ms", "is_favorited">>

\* mutant: prompt and created_at change places
CsvRow_Swapped(q) ==
    <<PyInt(q.id), PyInt(q.user_id), Isoformat(q.created_at), q.prompt,
      PyInt(q.duration_ms), PyBool(q.is_favorited)>>

\* the list of lines 341-348
CsvRow(q) ==
    <<PyInt(q.id), PyInt(q.user_id), q.prompt, Isoformat(q.created_at),
      PyInt(q.duration_ms), PyBool(q.is_favorited)>>

\* q.to_dict() as json.dump writes it
JsonRow(q) == <<"{\"id\": " \o PyInt(q.id) \o ", ...}">>

\* what lines 325-348 have written once they got through `queries`
WriteFile(format, queries) ==
    IF format = "json"
    THEN [format |-> "json", records |-> [i \in 1..Len(queries) |-> JsonRow(queries[i])]]
    ELSE [format |-> "csv",
          records |-> <<CsvHeader>> \o [i \in 1..Len(queries) |-> CsvRow(queries[i])]]

\* text lines of a file: one per record and one more per line break in it
RECURSIVE SumLineBreaks(_)
SumLineBreaks(fields) ==
    IF fields = <<>> THEN 0 ELSE LineBreaks(Head(fields)) + SumLineBreaks(Tail(fields))

RECURSIVE FileLines(_)
FileLines(records) ==
    IF records = <<>> THEN 0
    ELSE 1 + SumLineBreaks(Head(records)) + FileLines(Tail(records))

\* the rows of QueryHistory after the file is written (lines 318-349): the
\* command only reads them
\* mutant: the exported rows are deleted
KeptAfterExport_Purged(rows, queries) ==
    rows \ {queries[i] : i \in 1..Len(queries)}

KeptAfterExport(rows, queries) == rows

ExportQueries(user, format) ==
    LET user_obj == UserByName(user)
        queries  == ById({q \in history :
                            Truthy(user) => q.user_id \in {u.id : u \in user_obj}})
        End(said, file, count, raised) ==
            /\ exported' = file
            /\ cli' = [NoCli EXCEPT
                         !.cmd = "export-queries", !.user = user, !.format = format,
                         !.before = history, !.usersBefore = users,
                         !.profilesBefore = profiles, !.keysBefore = apiKeys,
                         !.said = said, !.count = count, !.raised = raised]
            /\ history' = IF said = <<"exported">>
                          THEN KeptAfterExport(history, queries) ELSE history
    IN  /\ \/ \* os.makedirs raises: printed and raised again (lines 351-353)
              End(<<"error">>, NoFile, 0, TRUE)
           \/ IF Truthy(user) /\ user_obj = {}
              THEN End(<<"not found">>, NoFile, 0, FALSE)
              ELSE IF Len(queries) = 0
              THEN End(<<"no queries found">>, NoFile, 0, FALSE)
              ELSE \/ End(<<"exported">>, WriteFile(format, queries),
                          Len(queries), FALSE)
                   \* a write fails: the file holds what was written before
                   \/ \E k \in 0..(Len(queries) - 1) :
                         End(<<"error">>, WriteFile(format, SubSeq(queries, 1, k)),
                             0, TRUE)
        /\ UNCHANGED <<users, profiles, apiKeys, utcnow, llmVars, clientVars, appVars>>

\* the tables as the web application left them
InitCLI ==
    /\ cacheEnabled = TRUE
    /\ LLMAtRest({"t1"})
    /\ environ = [OPENAI_API_KEY |-> "sk-env", HUGGINGFACE_API_KEY |-> "hf-env"]
    /\ config = [OPENAI_API_KEY |-> None, HUGGINGFACE_API_KEY |-> None]
    /\ clients = {}
    /\ defaultClient = [openai |-> 0, hf |-> 0]
    /\ ClientsAtRest({"t1"})
    /\ AppAtRest
    /\ users = SeedUsers
    /\ profiles = {[user_id |-> u.id] : u \in SeedUsers}
    /\ apiKeys = {}
    /\ exported = NoFile
    /\ \E present \in SUBSET (1..MaxRows) :
         \E f \in [present -> RowValues] :
            history = {Row(id, f[id]) : id \in present}
    /\ utcnow = MaxDay
    /\ cli = NoCli

NextCLI ==
    \/ \E days \in DaysOptions, dry_run \in BOOLEAN, user \in UserOptions :
          CleanHistory(days, dry_run, user)
    \/ \E user \in UserOptions, format \in FormatOptions :
          ExportQueries(user, format)

SpecCLI == InitCLI /\ [][NextCLI]_vars

(***************************************************************************)
(* The commands that write User, UserProfile and ApiKey (commands.py,      *)
(* lines 30-161).  The tables hold what is committed: db.session.commit()  *)
(* either commits what the session holds or raises, and the handler's      *)
(* db.session.rollback() then drops what was not committed.                *)
(***************************************************************************)
UsernameOptions == {"admin", "alice"}
EmailOptions    == {"admin@example.com", "alice@example.com"}
PasswordOptions == {"pw1", "pw2"}
KeyNames        == {"ci"}

\* the password setter of User hashes
Hash(password) == "hash(" \o password \o ")"

\* the id the database gives the next User row
NewUserId == IF users = {} THEN 1
             ELSE 1 + (CHOOSE n \in {u.id : u \in users} : \A u \in users : u.id <= n)

UserRow(id, username, email, password) ==
    [id |-> id, username |-> username, email |-> email, password |-> Hash(password)]

\* the first user `name` finds; asked only when there is one
FirstUser(name) == CHOOSE u \in UserByName(name) : TRUE

AdminRan(cmd, user, email, password, name, confirm, said, raised) ==
    [NoCli EXCEPT
       !.cmd = cmd, !.user = user, !.email = email, !.password = password,
       !.name = name, !.confirm = confirm, !.before = history,
       !.usersBefore = users, !.profilesBefore = profiles, !.keysBefore = apiKeys,
       !.said = said, !.raised = raised, !.rolledBack = raised]

\* mutant: only the username is looked for
UserExists_UsernameOnly(username, email) ==
    \E u \in users : u.username = username

\* the query of line 78
UserExists(username, email) ==
    \E u \in users : u.username = username \/ u.email = email

\* create-admin, lines 69-103
CreateAdmin(username, email, password) ==
    LET admin == UserRow(NewUserId, username, email, password)
        End(said, us, ps, raised) ==
            /\ users' = us
            /\ profiles' = ps
            /\ cli' = AdminRan("create-admin", username, email, password, None,
                               FALSE, said, raised)
    IN  /\ \/ \* the query of line 78 raises
              End(<<"error">>, users, profiles, TRUE)
           \/ IF UserExists(username, email)
              THEN End(<<"exists">>, users, profiles, FALSE)
              ELSE \/ \* the commit of line 92 raises: the user is rolled back
                      End(<<"error">>, users, profiles, TRUE)
                   \* the commit of line 97 raises: the user is committed
                   \* already, the rollback drops the profile
                   \/ End(<<"error">>, users \cup {admin}, profiles, TRUE)
                   \/ End(<<"created">>, users \cup {admin},
                          profiles \cup {[user_id |-> admin.id]}, FALSE)
        /\ exported' = NoFile
        /\ UNCHANGED <<apiKeys, history, utcnow, llmVars, clientVars, appVars>>

\* seed-data, lines 30-66
SeedData ==
    LET admin == UserRow(NewUserId, "admin", "admin@example.com", "adminpassword")
        End(confirm, said, us, ps, raised) ==
            /\ users' = us
            /\ profiles' = ps
            /\ cli' = AdminRan("seed-data", None, None, None, None,
                               confirm, said, raised)
        Seed(confirm) ==
            IF UserByName("admin") = {}
            THEN \/ End(confirm, <<"error">>, users, profiles, TRUE)
                 \/ End(confirm, <<"error">>, users \cup {admin}, profiles, TRUE)
                 \/ End(confirm, <<"created admin", "seeded">>, users \cup {admin},
                        profiles \cup {[user_id |-> admin.id]}, FALSE)
            ELSE End(confirm, <<"seeded">>, users, profiles, FALSE)
    IN  /\ \/ \* User.query.count() raises
              End(FALSE, <<"error">>, users, profiles, TRUE)
           \/ IF users # {}
              THEN \/ End(FALSE, <<"cancelled">>, users, profiles, FALSE)
                   \/ Seed(TRUE)
              ELSE Seed(FALSE)
        /\ exported' = NoFile
        /\ UNCHANGED <<apiKeys, history, utcnow, llmVars, clientVars, appVars>>

\* reset-password, lines 106-128
ResetPassword(username, password) ==
    LET End(said, us, raised) ==
            /\ users' = us
            /\ cli' = AdminRan("reset-password", username, None, password, None,
                               FALSE, said, raised)
    IN  /\ \/ \* the query or the commit raises: nothing is committed
              End(<<"error">>, users, TRUE)
           \/ IF UserByName(username) = {}
              THEN End(<<"not found">>, users, FALSE)
              ELSE LET user == FirstUser(username)
                   IN  End(<<"updated">>,
                           (users \ {user}) \cup
                               {[user EXCEPT !.password = Hash(password)]},
                           FALSE)
        /\ exported' = NoFile
        /\ UNCHANGED <<profiles, apiKeys, history, utcnow, llmVars, clientVars, appVars>>

\* ApiKey.generate_key(user_id, name, expires_days) of app/auth/models.py:
\* a new row of ApiKey for that user, committed
GenerateKey(user_id, name, expires_days) ==
    apiKeys \cup {[id |-> Cardinality(apiKeys) + 1, user_id |-> user_id,
                   name |-> name, expires_at |-> utcnow + expires_days]}

\* create-api-key, lines 131-161
CreateApiKey(username, name, expires) ==
    LET End(said, keys, raised) ==
            /\ apiKeys' = keys
            /\ cli' = AdminRan("create-api-key", username, None, None, name,
                               FALSE, said, raised)
    IN  /\ \/ \* the query or generate_key raises
              End(<<"error">>, apiKeys, TRUE)
           \/ IF UserByName(username) = {}
              THEN End(<<"not found">>, apiKeys, FALSE)
              ELSE /\ Cardinality(apiKeys) < MaxKeys
                   /\ End(<<"created">>,
                          GenerateKey(FirstUser(username).id, name, expires), FALSE)
        /\ exported' = NoFile
        /\ UNCHANGED <<users, profiles, history, utcnow, llmVars, clientVars, appVars>>

\* list-users, lines 164-182: reads User, prints, returns; an exception is
\* printed and raised again
ListUsers ==
    /\ \/ cli' = AdminRan("list-users", None, None, None, None, FALSE,
                          <<"error">>, TRUE)
       \/ cli' = [AdminRan("list-users", None, None, None, None, FALSE,
                           IF users = {} THEN <<"no users found">> ELSE <<"found">>,
                           FALSE)
                  EXCEPT !.count = Cardinality(users)]
    /\ exported' = NoFile
    /\ UNCHANGED <<users, profiles, apiKeys, history, utcnow, llmVars, clientVars,
                   appVars>>

\* check-system, lines 356-441: SELECT 1, then the count of the keys that
\* expired; either query may raise, which is noted and not raised again.
\* The checks of the settings and of the disk read no table.
CheckSystem ==
    /\ \E db_ok \in BOOLEAN, keys_ok \in BOOLEAN :
         LET expired_count == Cardinality({k \in apiKeys : k.expires_at < utcnow})
         IN  cli' = [AdminRan("check-system", None, None, None, None, FALSE,
                              <<IF db_ok THEN "OK" ELSE "FAILED",
                                IF ~keys_ok THEN "ERROR"
                                ELSE IF expired_count > 0 THEN "WARNING" ELSE "OK">>,
                              FALSE)
                     EXCEPT !.count = IF keys_ok THEN expired_count ELSE 0]
    /\ exported' = NoFile
    /\ UNCHANGED <<users, profiles, apiKeys, history, utcnow, llmVars, clientVars,
                   appVars>>

\* a database right after init-db, or one in use
InitAdmin ==
    /\ cacheEnabled = TRUE
    /\ LLMAtRest({"t1"})
    /\ environ = [OPENAI_API_KEY |-> "sk-env", HUGGINGFACE_API_KEY |-> "hf-env"]
    /\ config = [OPENAI_API_KEY |-> None, HUGGINGFACE_API_KEY |-> None]
    /\ clients = {}
    /\ defaultClient = [openai |-> 0, hf |-> 0]
    /\ ClientsAtRest({"t1"})
    /\ AppAtRest
    /\ \/ users = {} /\ profiles = {} /\ history = {}
       \/ /\ users = SeedUsers
          /\ profiles = {[user_id |-> u.id] : u \in SeedUsers}
          /\ history = {Row(1, [user_id |-> 1, created_at |-> 0]),
                        Row(2, [user_id |-> 2, created_at |-> MaxDay])}
    /\ apiKeys = {}
    /\ utcnow = MaxDay
    /\ exported = NoFile
    /\ cli = NoCli

NextAdmin ==
    \/ SeedData
    \/ \E username \in UsernameOptions, email \in EmailOptions :
          CreateAdmin(username, email, "pw1")
    \/ \E username \in UsernameOptions, password \in PasswordOptions :
          ResetPassword(username, password)
    \/ \E username \in UsernameOptions \cup {"carol"}, name \in KeyNames :
          CreateApiKey(username, name, DefaultExpires)
    \/ \E dry_run \in BOOLEAN, user \in {None, "alice"} :
          CleanHistory(1, dry_run, user)
    \/ \E user \in {None, "carol"}, format \in FormatOptions :
          ExportQueries(user, format)
    \/ ListUsers
    \/ CheckSystem

SpecAdmin == InitAdmin /\ [][NextAdmin]_vars

(***************************************************************************)
(* Celery (celery_app.py).  Time is the minute of the day; beat looks at   *)
(* every minute once and sends the task of each entry that is due.  A task *)
(* name is the sequence of its dotted parts.                               *)
(***************************************************************************)
MinutesPerHour == 60
HoursPerDay    == 24
MinutesPerDay  == MinutesPerHour * HoursPerDay

\* a field of crontab: '*', '*/n' or the number n
All      == [kind |-> "all", n |-> 0]
Every(n) == [kind |-> "every", n |-> n]
At(n)    == [kind |-> "at", n |-> n]

\* crontab(minute='*', hour='*'): a field that is not given is '*'
Crontab(minute, hour) == [minute |-> minute, hour |-> hour]

\* the values a field stands for, among 0 .. max-1
Expand(field, max) ==
    CASE field.kind = "all"   -> 0..(max - 1)
      [] field.kind = "every" -> {v \in 0..(max - 1) : v % field.n = 0}
      [] field.kind = "at"    -> {field.n}

\* crontab.is_due at minute m of the day
IsDue(schedule, m) ==
    /\ (m % MinutesPerHour) \in Expand(schedule.minute, MinutesPerHour)
    /\ (m \div MinutesPerHour) \in Expand(schedule.hour, HoursPerDay)

\* conf.beat_schedule, lines 37-50
BeatSchedule ==
    {[name     |-> "cleanup-expired-tokens",
      task     |-> <<"app", "auth", "tasks", "cleanup_expired_tokens">>,
      schedule |-> Crontab(At(0), At(0))],
     [name     |-> "update-geo-data-cache",
      task     |-> <<"app", "geo", "tasks", "update_geo_data_cache">>,
      schedule |-> Crontab(All, Every(6))],
     [name     |-> "clear-old-sessions",
      task     |-> <<"app", "auth", "tasks", "clear_old_sessions">>,
      schedule |-> Crontab(At(0), At(2))]}

EntryNames == {e.name : e \in BeatSchedule}

\* mutant: the geo and llm queues change places
TaskRoutes_Swapped ==
    <<[pattern |-> <<"app", "geo", "tasks", "*">>, queue |-> "llm"],
      [pattern |-> <<"app", "llm", "tasks", "*">>, queue |-> "geo"],
      [pattern |-> <<"app", "auth", "tasks", "*">>, queue |-> "auth"]>>

\* conf.task_routes, lines 53-57, in the order of the dict
TaskRoutes ==
    <<[pattern |-> <<"app", "geo", "tasks", "*">>, queue |-> "geo"],
      [pattern |-> <<"app", "llm", "tasks", "*">>, queue |-> "llm"],
      [pattern |-> <<"app", "auth", "tasks", "*">>, queue |-> "auth"]>>

\* create_celery_app(app): schedule and routes are set only `if app:`
CreateCeleryApp(flask) ==
    IF flask
    THEN [app |-> TRUE, beat_schedule |-> BeatSchedule, task_routes |-> TaskRoutes]
    ELSE [app |-> FALSE, beat_schedule |-> {}, task_routes |-> <<>>]

\* the glob of a route against a task name: '*' stands for what is left
RECURSIVE GlobMatch(_, _)
GlobMatch(pattern, name) ==
    IF pattern = <<>> THEN name = <<>>
    ELSE IF name = <<>> THEN FALSE
    ELSE IF Head(pattern) = "*"
    THEN GlobMatch(Tail(pattern), Tail(name)) \/ GlobMatch(pattern, Tail(name))
    ELSE Head(pattern) = Head(name) /\ GlobMatch(Tail(pattern), Tail(name))

\* the queue of a task: the first route that matches, else the default queue
Route(conf, name) ==
    LET hits == {i \in 1..Len(conf.task_routes) :
                    GlobMatch(conf.task_routes[i].pattern, name)}
    IN  IF hits = {} THEN "celery"
        ELSE conf.task_routes[CHOOSE i \in hits : \A j \in hits : i <= j].queue

QueueNames == {"geo", "llm", "auth", "celery"}

\* apply_async of each of the tasks
SendAll(qs, conf, names) ==
    [q \in DOMAIN qs |-> qs[q] \cup {n \in names : Route(conf, n) = q}]

\* tasks the application sends by itself
AdHocTasks ==
    {<<"app", "geo", "tasks", "fetch_features">>,
     <<"app", "llm", "tasks", "complete">>,
     <<"app", "auth", "tasks", "send_reset_mail">>,
     <<"app", "main", "tasks", "ping">>}

\* beat looks at the next minute
BeatTick ==
    /\ beat.next < MinutesPerDay
    /\ LET m   == beat.next
           due == {e \in celery.beat_schedule : IsDue(e.schedule, m)}
           dueNames == {e.name : e \in due}
       IN  /\ beat' = [next  |-> m + 1,
                       fired |-> [n \in EntryNames |->
                                    beat.fired[n] + (IF n \in dueNames THEN 1 ELSE 0)],
                       last  |-> [n \in EntryNames |->
                                    IF n \in dueNames THEN m ELSE beat.last[n]],
                       gaps  |-> [n \in EntryNames |->
                                    IF n \in dueNames /\ beat.last[n] >= 0
                                    THEN beat.gaps[n] \cup {m - beat.last[n]}
                                    ELSE beat.gaps[n]]]
           /\ queues' = SendAll(queues, celery, {e.task : e \in due})
    /\ UNCHANGED <<celery, llmVars, clientVars, cliVars, webVars, keyVars, bootVars>>

\* some code calls task.delay()
SendTask(name) ==
    /\ queues' = SendAll(queues, celery, {name})
    /\ queues' # queues
    /\ UNCHANGED <<celery, beat, llmVars, clientVars, cliVars, webVars, keyVars, bootVars>>

\* midnight; the Celery application was made with the Flask application, or
\* without one as line 74 does
InitCelery ==
    /\ cacheEnabled = TRUE
    /\ LLMAtRest({"t1"})
    /\ environ = [OPENAI_API_KEY |-> "sk-env", HUGGINGFACE_API_KEY |-> "hf-env"]
    /\ config = [OPENAI_API_KEY |-> None, HUGGINGFACE_API_KEY |-> None]
    /\ clients = {}
    /\ defaultClient = [openai |-> 0, hf |-> 0]
    /\ gpc = [t \in {"t1"} |-> "idle"]
    /\ got = [t \in {"t1"} |-> NoGot]
    /\ CLIAtRest
    /\ \E flask \in BOOLEAN : celery = CreateCeleryApp(flask)
    /\ beat = [next  |-> 0,
               fired |-> [n \in EntryNames |-> 0],
               last  |-> [n \in EntryNames |-> -1],
               gaps  |-> [n \in EntryNames |-> {}]]
    /\ queues = [q \in QueueNames |-> {}]
    /\ app = NoApp
    /\ response = NoResponse
    /\ calls = << >>
    /\ cacheKeys = << >>
    /\ BootAtRest

NextCelery ==
    \/ BeatTick
    \/ \E name \in AdHocTasks : SendTask(name)

SpecCelery == InitCelery /\ [][NextCelery]_vars

(***************************************************************************)
(* HTTP errors (__init__.py).  create_app (lines 18-101) registers no      *)
(* error handler; register_error_handlers is defined twice (lines 123-146  *)
(* and 188-205) and the name is bound to the second definition.  A path is *)
(* the sequence of its parts: /api/query is <<"api", "query">>.            *)
(***************************************************************************)
ConfigNames   == {"development", "testing", "production", "docker", "default"}
ErrorStatuses == {400, 403, 404, 500}
Paths ==
    {<<"api", "query">>, <<"api", "geo", "search">>, <<"api">>, <<"apidocs", "index">>,
     <<"history">>, <<"auth", "login">>}

\* request.path.startswith('/api/')
StartsWithApi(path) == Len(path) >= 2 /\ path[1] = "api"

\* what a handler answers with: for a path under /api/, for any other path
JsonOrHtml == [api |-> "json", other |-> "html"]
HtmlAlways == [api |-> "html", other |-> "html"]

\* the handlers of the definition at lines 123-146
ErrorHandlersFirst == (404 :> JsonOrHtml) @@ (500 :> JsonOrHtml) @@ (403 :> JsonOrHtml)

\* the handlers of the definition at lines 188-205
ErrorHandlersSecond ==
    (400 :> HtmlAlways) @@ (403 :> HtmlAlways) @@ (404 :> HtmlAlways) @@ (500 :> HtmlAlways)

\* the function the module's name register_error_handlers stands for once
\* the module is loaded: the later `def` replaces the earlier
RegisteredByModule == ErrorHandlersSecond

\* create_app(config_name): the extensions and blueprints of lines 65-99;
\* agent_api tells whether the import of line 95 succeeded
CreateApp(config_name, agent_api) ==
    [config_name |-> config_name, agent_api |-> agent_api, error_handlers |-> << >>]

\* some caller runs register_error_handlers(app); create_app does not
RegisterErrorHandlers ==
    /\ app.error_handlers # RegisteredByModule
    /\ app' = [app EXCEPT !.error_handlers = RegisteredByModule]
    /\ UNCHANGED <<response, llmVars, clientVars, cliVars, celeryVars, keyVars, bootVars>>

\* a request for `path` ends in the HTTP error `status`: Flask calls the
\* handler registered for the status, and without one answers with the
\* error's own response, an HTML page with that status
HandleHttpError(path, status) ==
    /\ response' =
          IF status \in DOMAIN app.error_handlers
          THEN [path |-> path, error |-> status, status |-> status,
                format |-> IF StartsWithApi(path)
                           THEN app.error_handlers[status].api
                           ELSE app.error_handlers[status].other,
                by |-> "handler"]
          ELSE [path |-> path, error |-> status, status |-> status,
                format |-> "html", by |-> "werkzeug"]
    /\ UNCHANGED <<app, llmVars, clientVars, cliVars, celeryVars, keyVars, bootVars>>

InitWeb ==
    /\ cacheEnabled = TRUE
    /\ LLMAtRest({"t1"})
    /\ environ = [OPENAI_API_KEY |-> "sk-env", HUGGINGFACE_API_KEY |-> "hf-env"]
    /\ config = [OPENAI_API_KEY |-> None, HUGGINGFACE_API_KEY |-> None]
    /\ clients = {}
    /\ defaultClient = [openai |-> 0, hf |-> 0]
    /\ gpc = [t \in {"t1"} |-> "idle"]
    /\ got = [t \in {"t1"} |-> NoGot]
    /\ CLIAtRest
    /\ celery = NoCelery
    /\ beat = BeatAtRest
    /\ queues = << >>
    /\ \E config_name \in ConfigNames, agent_api \in BOOLEAN :
          app = CreateApp(config_name, agent_api)
    /\ response = NoResponse
    /\ calls = << >>
    /\ cacheKeys = << >>
    /\ BootAtRest

NextWeb ==
    \/ RegisterErrorHandlers
    \/ \E path \in Paths, status \in ErrorStatuses : HandleHttpError(path, status)

SpecWeb == InitWeb /\ [][NextWeb]_vars

(***************************************************************************)
(* The cache key of two calls of get_chat_completion (openai_client.py,    *)
(* lines 26-38 and 84-127).  A call is given by who is called, how the     *)
(* messages are passed, and which of model and temperature are passed.     *)
(***************************************************************************)
NotPassed == "<not passed>"

\* two clients of one process, made the same way
KeyClients ==
    {OpenAIClientObj(1, "sk-env", "gpt-3.5-turbo"),
     OpenAIClientObj(2, "sk-env", "gpt-3.5-turbo")}

CallForms ==
    [self        : KeyClients,
     style       : {"positional", "keyword"},
     messages    : {MessagesStr(None, "q1"), MessagesStr(None, "q2")},
     model       : {NotPassed, "None", "gpt-3.5-turbo", "gpt-4"},
     temperature : {NotPassed, "0.7", "0.2"}]

\* *args and **kwargs as decorated_function receives them (line 26)
PyCall(form) ==
    LET passed == {n \in {"messages", "model", "temperature"} :
                     IF n = "messages" THEN form.style = "keyword"
                     ELSE form[n] # NotPassed}
    IN  [args   |-> <<ObjRepr(form.self)>> \o
                    (IF form.style = "positional" THEN <<form.messages>> ELSE <<>>),
         kwargs |-> [n \in passed |-> form[n]]]

\* the request of lines 117-127: `model or self.model`, the defaults of the
\* signature (lines 87-88) for what is not passed
ProviderRequest(form) ==
    [model       |-> IF form.model \in {NotPassed, "None"}
                     THEN form.self.model ELSE form.model,
     messages    |-> form.messages,
     temperature |-> IF form.temperature = NotPassed THEN "0.7"
                     ELSE form.temperature]

\* decorated_function makes the key of each call (lines 31-38)
Fingerprint ==
    /\ cacheKeys = << >>
    /\ cacheKeys' = [i \in DOMAIN calls |-> CacheKey(PyCall(calls[i]))]
    /\ UNCHANGED <<calls, llmVars, clientVars, cliVars, celeryVars, webVars, bootVars>>

InitKey ==
    /\ cacheEnabled = TRUE
    /\ LLMAtRest({"t1"})
    /\ environ = [OPENAI_API_KEY |-> "sk-env", HUGGINGFACE_API_KEY |-> "hf-env"]
    /\ config = [OPENAI_API_KEY |-> None, HUGGINGFACE_API_KEY |-> None]
    /\ clients = KeyClients
    /\ defaultClient = [openai |-> 1, hf |-> 0]
    /\ gpc = [t \in {"t1"} |-> "idle"]
    /\ got = [t \in {"t1"} |-> NoGot]
    /\ CLIAtRest
    /\ celery = NoCelery
    /\ beat = BeatAtRest
    /\ queues = << >>
    /\ app = NoApp
    /\ response = NoResponse
    /\ calls \in [1..2 -> CallForms]
    /\ cacheKeys = << >>
    /\ BootAtRest

NextKey == Fingerprint

SpecKey == InitKey /\ [][NextKey]_vars

(***************************************************************************)
(* Two requests at once on one cache: two web threads of a process, or     *)
(* two worker processes on the Redis cache of config.py line 84.  Both     *)
(* ask the same question, get_chat_completion(messages=[q1]); a response   *)
(* of the provider carries the text FullJson.                              *)
(***************************************************************************)
Requests == {"t1", "t2"}

\* the address of a client made in another worker process, or made after
\* an earlier client was freed: the one the earlier client has, or a new one
LaterAddresses == {"0x01", "0x03"}

\* client 1 and a later client whose default model (line 69) is another
SharedClients(addr) ==
    {OpenAIClientObj(1, "sk-env", "gpt-3.5-turbo"),
     [OpenAIClientObj(3, "sk-env", "gpt-4") EXCEPT !.addr = addr]}

InitShared ==
    /\ cacheEnabled = TRUE
    /\ LLMAtRest(Requests)
    /\ environ = [OPENAI_API_KEY |-> "sk-env", HUGGINGFACE_API_KEY |-> "hf-env"]
    /\ config = [OPENAI_API_KEY |-> None, HUGGINGFACE_API_KEY |-> None]
    /\ \E addr \in LaterAddresses : clients = SharedClients(addr)
    /\ defaultClient = [openai |-> 1, hf |-> 0]
    /\ ClientsAtRest(Requests)
    /\ AppAtRest
    /\ CLIAtRest

NextShared ==
    \/ \E t \in DOMAIN pc : Start(t) /\ op'[t].fn = "chat" /\ op'[t].query = "q1"
    \/ \E t \in DOMAIN pc : CacheLookup(t)
    \/ \E t \in DOMAIN pc :
         ProviderCall(t) /\ tried'[t][Len(tried'[t])].text \in {<<>>, FullJson}
    \/ \E t \in DOMAIN pc : CacheStore(t)

SpecShared == InitShared /\ [][NextShared]_vars

(***************************************************************************)
(* create-admin from two shells at once (commands.py, lines 69-103).  A    *)
(* run is the query of line 78, the commit of the user (line 92) and the   *)
(* commit of the profile (line 97); the database sees the statements of    *)
(* the two runs in any order.  Each of the three may raise, and then the   *)
(* run rolls back and re-raises (lines 100-103).                           *)
(***************************************************************************)
\* INSERT into the table of User as the specification describes it: the
\* row is added with the id the database gave it
InsertUser(us, row) == us \cup {row}

AdminEnds(p, said, raised) ==
    proc' = [proc EXCEPT ![p].pc = "done", ![p].said = said, ![p].raised = raised]

AdminStart(p, username, email, password) ==
    /\ proc[p].pc = "idle"
    /\ proc' = [proc EXCEPT ![p] = [NoProc EXCEPT !.pc = "query",
                                      !.username = username, !.email = email,
                                      !.password = password]]
    /\ UNCHANGED <<llmVars, clientVars, cliVars, celeryVars, webVars, keyVars,
                   boot, settings>>

\* line 78
AdminQuery(p) ==
    /\ proc[p].pc = "query"
    /\ \/ AdminEnds(p, <<"error">>, TRUE)
       \/ IF UserExists(proc[p].username, proc[p].email)
          THEN AdminEnds(p, <<"exists">>, FALSE)
          ELSE proc' = [proc EXCEPT ![p].pc = "user"]
    /\ UNCHANGED <<llmVars, clientVars, cliVars, celeryVars, webVars, keyVars,
                   boot, settings>>

\* lines 82-92
AdminAddUser(p) ==
    /\ proc[p].pc = "user"
    /\ \/ /\ AdminEnds(p, <<"error">>, TRUE)
          /\ users' = users
       \/ /\ users' = InsertUser(users, UserRow(NewUserId, proc[p].username,
                                                proc[p].email, proc[p].password))
          /\ proc' = [proc EXCEPT ![p].pc = "profile", ![p].added = TRUE,
                                  ![p].id = NewUserId]
    /\ UNCHANGED <<profiles, apiKeys, history, utcnow, exported, cli, llmVars,
                   clientVars, celeryVars, webVars, keyVars, boot, settings>>

\* lines 95-99
AdminAddProfile(p) ==
    /\ proc[p].pc = "profile"
    /\ \/ /\ AdminEnds(p, <<"error">>, TRUE)
          /\ profiles' = profiles
       \/ /\ AdminEnds(p, <<"created">>, FALSE)
          /\ profiles' = profiles \cup {[user_id |-> proc[p].id]}
    /\ UNCHANGED <<users, apiKeys, history, utcnow, exported, cli, llmVars,
                   clientVars, celeryVars, webVars, keyVars, boot, settings>>

NextRace ==
    \/ \E p \in Procs, username \in UsernameOptions, email \in EmailOptions :
          AdminStart(p, username, email, "pw1")
    \/ \E p \in Procs : AdminQuery(p)
    \/ \E p \in Procs : AdminAddUser(p)
    \/ \E p \in Procs : AdminAddProfile(p)

SpecRace == InitAdmin /\ [][NextRace]_vars

(***************************************************************************)
(* create_app step by step (__init__.py, lines 18-101) and the thread      *)
(* that init_earth_engine_async starts (lines 104-120).  boot.ee is the    *)
(* thread: none, running, ok (line 112) or failed (lines 113-114).         *)
(***************************************************************************)
\* line 120: thread.start() returns as soon as the thread runs, and nothing
\* joins the thread afterwards
\* mutant: the thread is joined before create_app goes on
StartReturns_Joined(ee) == ee \in {"ok", "failed"}

StartReturns(ee) == ee # "none"

Logged(b, message) == [b EXCEPT !.log = Append(@, message)]

\* lines 38-62: config[config_name] is a KeyError for a name the dictionary
\* of config.py (lines 235-240) has not; then the log handler
CreateAppBegin(config_name, log_to_stdout) ==
    /\ boot.pc = "none"
    /\ boot' = IF config_name \in ConfigNames
               THEN Logged([boot EXCEPT !.pc = "extensions",
                                        !.config_name = config_name,
                                        !.handler = IF log_to_stdout THEN "stream"
                                                    ELSE "file"],
                           "GeoLLM startup")
               ELSE [boot EXCEPT !.pc = "raised", !.config_name = config_name]
    /\ UNCHANGED <<llmVars, clientVars, cliVars, celeryVars, webVars, keyVars,
                   proc, settings>>

\* lines 64-73
InitExtensions ==
    /\ boot.pc = "extensions"
    /\ boot' = [boot EXCEPT !.pc = "earth_engine"]
    /\ UNCHANGED <<llmVars, clientVars, cliVars, celeryVars, webVars, keyVars,
                   proc, settings>>

\* lines 76-78 and 117-120: the daemon thread is made and started
InitEarthEngineAsync ==
    /\ boot.pc = "earth_engine"
    /\ boot' = [boot EXCEPT !.pc = "started", !.ee = "running"]
    /\ UNCHANGED <<llmVars, clientVars, cliVars, celeryVars, webVars, keyVars,
                   proc, settings>>

\* lines 80-101: the blueprints, the agent blueprint when its import
\* succeeds, and the application is returned
RegisterBlueprints(agent_api) ==
    /\ boot.pc = "started"
    /\ StartReturns(boot.ee)
    /\ boot' = Logged([boot EXCEPT !.pc = "returned", !.eeAtReturn = boot.ee],
                      IF agent_api THEN "agent registered" ELSE "agent not found")
    /\ app' = CreateApp(boot.config_name, agent_api)
    /\ UNCHANGED <<response, llmVars, clientVars, cliVars, celeryVars, keyVars,
                   proc, settings>>

\* _init_earth_engine, lines 107-114, whenever the thread gets to it: the
\* data source manager is made, or an exception is caught and logged
EarthEngineEnds(outcome) ==
    /\ boot.ee = "running"
    /\ boot' = Logged([boot EXCEPT !.ee = outcome],
                      IF outcome = "ok" THEN "Earth Engine initialized"
                      ELSE "Failed to initialize Earth Engine")
    /\ UNCHANGED <<llmVars, clientVars, cliVars, celeryVars, webVars, keyVars,
                   proc, settings>>

InitBoot ==
    /\ cacheEnabled = TRUE
    /\ LLMAtRest({"t1"})
    /\ environ = [OPENAI_API_KEY |-> "sk-env", HUGGINGFACE_API_KEY |-> "hf-env"]
    /\ config = [OPENAI_API_KEY |-> None, HUGGINGFACE_API_KEY |-> None]
    /\ clients = {}
    /\ defaultClient = [openai |-> 0, hf |-> 0]
    /\ ClientsAtRest({"t1"})
    /\ AppAtRest
    /\ CLIAtRest

\* what the thread that called create_app does next
CreateAppStep ==
    \/ InitExtensions
    \/ InitEarthEngineAsync
    \/ \E agent_api \in BOOLEAN : RegisterBlueprints(agent_api)

NextBoot ==
    \/ \E config_name \in ConfigNames \cup {"staging"}, log_to_stdout \in BOOLEAN :
          CreateAppBegin(config_name, log_to_stdout)
    \/ InitExtensions
    \/ InitEarthEngineAsync
    \/ \E agent_api \in BOOLEAN : RegisterBlueprints(agent_api)
    \/ \E outcome \in {"ok", "failed"} : EarthEngineEnds(outcome)

\* the caller of create_app keeps running; the daemon thread may never end
SpecBoot == InitBoot /\ [][NextBoot]_vars /\ WF_vars(CreateAppStep)

(***************************************************************************)
(* The configuration classes of config3.py and of config.py, as far as     *)
(* USE_MOCK_GEO_DATA and USE_EARTH_ENGINE_AS_DEFAULT go.  A module is the  *)
(* sequence of its class statements; a later statement rebinds the name of *)
(* an earlier one, and a base class is the class its name was bound to     *)
(* when the statement ran.                                                 *)
(***************************************************************************)
\* what the environment may hold in USE_MOCK_GEO_DATA (None: not set)
MockEnvValues ==
    {None, "true", "True", "TRUE", "yes", "Yes", "1", "false", "False", "no", "0"}

\* str.lower() on these values
Lower(s) ==
    CASE s \in {"True", "TRUE"} -> "true"
      [] s = "Yes"              -> "yes"
      [] s = "False"            -> "false"
      [] OTHER                  -> s

\* os.environ.get('USE_MOCK_GEO_DATA', 'false').lower() in ['true', 'yes', '1']
MockFromEnv(v) == Lower(IF v = None THEN "false" ELSE v) \in {"true", "yes", "1"}

\* the class statements of a module, in order, with the attributes each
\* class body ends up binding
ClassStatements(module, env) ==
    IF module = "config3"
    THEN <<[name |-> "Config", base |-> None,
            attrs |-> [USE_MOCK_GEO_DATA |-> MockFromEnv(env)]],
           [name |-> "DevelopmentConfig", base |-> "Config",
            attrs |-> [USE_MOCK_GEO_DATA |-> TRUE]],
           [name |-> "TestingConfig", base |-> "Config",
            attrs |-> [USE_MOCK_GEO_DATA |-> TRUE]],
           [name |-> "ProductionConfig", base |-> "Config", attrs |-> << >>],
           [name |-> "DockerDevConfig", base |-> "DevelopmentConfig", attrs |-> << >>]>>
    ELSE <<[name |-> "Config", base |-> None,
            attrs |-> [USE_MOCK_GEO_DATA |-> FALSE,
                       USE_EARTH_ENGINE_AS_DEFAULT |-> TRUE]],
           [name |-> "DevelopmentConfig", base |-> "Config",
            attrs |-> [USE_MOCK_GEO_DATA |-> FALSE,
                       USE_EARTH_ENGINE_AS_DEFAULT |-> TRUE]],
           [name |-> "TestingConfig", base |-> "Config",
            attrs |-> [USE_MOCK_GEO_DATA |-> FALSE,
                       USE_EARTH_ENGINE_AS_DEFAULT |-> TRUE]],
           [name |-> "DevelopmentConfig", base |-> "Config",
            attrs |-> [USE_MOCK_GEO_DATA |-> TRUE]],
           [name |-> "TestingConfig", base |-> "Config",
            attrs |-> [USE_MOCK_GEO_DATA |-> TRUE]],
           [name |-> "ProductionConfig", base |-> "Config", attrs |-> << >>],
           [name |-> "DockerDevConfig", base |-> "DevelopmentConfig", attrs |-> << >>]>>

\* the statement `name` is bound to once the first n statements ran (0: none)
Bound(stmts, name, n) ==
    LET at == {i \in 1..n : stmts[i].name = name}
    IN  IF at = {} THEN 0 ELSE CHOOSE i \in at : \A j \in at : j <= i

\* getattr(cls, attr) for the class of statement i: its own attribute, else
\* its base's; has is FALSE for an AttributeError
RECURSIVE GetAttr(_, _, _)
GetAttr(stmts, i, attr) ==
    IF i = 0 THEN [has |-> FALSE, value |-> FALSE]
    ELSE IF attr \in DOMAIN stmts[i].attrs
    THEN [has |-> TRUE, value |-> stmts[i].attrs[attr]]
    ELSE GetAttr(stmts, Bound(stmts, stmts[i].base, i - 1), attr)

\* the dictionary `config` at the end of either module
ConfigDict ==
    [development |-> "DevelopmentConfig", testing |-> "TestingConfig",
     production |-> "ProductionConfig", docker |-> "DockerDevConfig",
     default |-> "DevelopmentConfig"]

\* module.config[name], and the two settings read off the class
LookUpConfig(module, name) ==
    /\ LET stmts == ClassStatements(module, environ.USE_MOCK_GEO_DATA)
           cls   == Bound(stmts, ConfigDict[name], Len(stmts))
       IN  settings' = [module |-> module, name |-> name,
                        attrs |-> [a \in {"USE_MOCK_GEO_DATA",
                                          "USE_EARTH_ENGINE_AS_DEFAULT"} |->
                                     GetAttr(stmts, cls, a)]]
    /\ UNCHANGED <<llmVars, clientVars, cliVars, celeryVars, webVars, keyVars,
                   proc, boot>>

InitConfig ==
    /\ cacheEnabled = TRUE
    /\ LLMAtRest({"t1"})
    /\ \E v \in MockEnvValues : environ = [USE_MOCK_GEO_DATA |-> v]
    /\ config = << >>
    /\ clients = {}
    /\ defaultClient = [openai |-> 0, hf |-> 0]
    /\ ClientsAtRest({"t1"})
    /\ AppAtRest
    /\ CLIAtRest

NextConfig ==
    \E module \in {"config3", "config"}, name \in DOMAIN ConfigDict :
        LookUpConfig(module, name)

SpecConfig == InitConfig /\ [][NextConfig]_vars

(***************************************************************************)
(*                              The claims                                 *)
(***************************************************************************)
\* the thread's public method has ended
Finished(t) == pc[t] = "idle" /\ op[t].fn # ""
\* ... and it went through get_chat_completion of the OpenAI client
FinishedChat(t) == Finished(t) /\ op[t].fn \in {"chat", "analyze"}

Last(seq) == seq[Len(seq)]

\* C1: analyze_geospatial_query always returns normally, with an object that
\* has the four keys location, time_period, data_type and parameters,
\* whatever the provider does.
C1_AlwaysFourKeys ==
    \A t \in DOMAIN pc :
        (Finished(t) /\ op[t].fn \in {"analyze", "hf_analyze"}) =>
            /\ ret[t].kind = "return"
            /\ IntentKeys \subseteq DOMAIN ret[t].value

\* C2: with caching on, identical get_chat_completion calls within the TTL of
\* the first reach the provider exactly once, and whatever one of them returns
\* is the response of that first provider call.  (Stated for runs in which the
\* provider answered every call, and while the clock is within the TTL of
\* time 0, hence of every call made so far.)
C2_OneProviderCallWithinTTL ==
    (cacheEnabled /\ now < CACHE_DEFAULT_TIMEOUT /\ provider.noError) =>
        \A t \in DOMAIN pc :
            FinishedChat(t) =>
                /\ CallsFor(op[t].key) = 1
                /\ ret[t].kind = "return" => ret[t].resp.id = 1

\* C3: one invocation of get_chat_completion makes at most StopAfterAttempt
\* attempts, each calling the provider at most once; when the provider times
\* out on every call the invocation ends by raising and returns nothing.
C3_RetryBound ==
    \A t \in DOMAIN pc :
        /\ attempt[t] <= StopAfterAttempt
        /\ Len(tried[t]) <= attempt[t]
        /\ (provider.allTimeout /\ Finished(t) /\ op[t].fn = "chat") =>
               /\ ret[t].kind = "raise"
               /\ Len(tried[t]) = attempt[t]

C3_Witness ==
    \E t \in DOMAIN pc :
        /\ Finished(t) /\ op[t].fn = "chat" /\ provider.allTimeout
        /\ Len(tried[t]) = StopAfterAttempt /\ ret[t].kind = "raise"

\* C4: when the provider call succeeds and its text is not (well-formed) JSON,
\* analyze_geospatial_query returns the default structure and does not raise.
C4_DefaultOnParseFailure ==
    \A t \in DOMAIN pc :
        (/\ Finished(t) /\ op[t].fn = "analyze"
         /\ Len(tried[t]) > 0
         /\ Last(tried[t]).err = ""
         /\ Last(tried[t]).text \in {Prose, Malformed}) =>
            /\ ret[t].kind = "return"
            /\ ret[t].value = DefaultStructure

\* C5: when every attempt of an invocation failed with a transient provider
\* error, the public method ends by raising tenacity's RetryError, the same
\* condition whichever of timeout, connection error and 5xx the attempts hit,
\* and never by returning.
C5_ExhaustionIsRetryError ==
    \A t \in DOMAIN pc :
        (/\ FinishedChat(t)
         /\ Len(tried[t]) = StopAfterAttempt
         /\ \A i \in 1..Len(tried[t]) : tried[t][i].err \in TransientErrors) =>
            /\ ret[t].kind = "raise"
            /\ ret[t].exc = "RetryError"

C5_Witness ==
    \E t \in DOMAIN pc :
        /\ Finished(t) /\ op[t].fn = "analyze"
        /\ Len(tried[t]) = StopAfterAttempt
        /\ tried[t][1].err = "APITimeoutError"
        /\ tried[t][2].err = "APIConnectionError"
        /\ tried[t][3].err = "InternalServerError"
        /\ ret[t].exc = "RetryError"

\* C6: an invocation whose first provider call fails with a transient error
\* calls the provider again; one whose first provider call fails with a
\* non-transient provider error calls it once and ends with that error.
C6_OnlyTransientRetried ==
    \A t \in DOMAIN pc :
        /\ (FinishedChat(t) /\ Len(tried[t]) > 0
            /\ tried[t][1].err \in TransientErrors) => Len(tried[t]) >= 2
        /\ (Len(tried[t]) > 0
            /\ tried[t][1].err \in ProviderErrors \ TransientErrors) =>
               /\ Len(tried[t]) = 1
               /\ Finished(t) => (ret[t].kind = "raise" /\ ret[t].exc = tried[t][1].err)

KeySet(kind) ==
    IF kind = "openai"
    THEN environ.OPENAI_API_KEY # "" \/ config.OPENAI_API_KEY # ""
    ELSE environ.HUGGINGFACE_API_KEY # "" \/ config.HUGGINGFACE_API_KEY # ""

\* C7: no client object of either wrapper exists without an API key; while no
\* key is set for a wrapper its process-wide default stays unset, and
\* get_openai_client / get_huggingface_client end by raising.
C7_NoClientWithoutKey ==
    /\ \A c \in clients : c.api_key # ""
    /\ \A kind \in {"openai", "hf"} : ~KeySet(kind) => defaultClient[kind] = 0
    /\ \A t \in DOMAIN gpc :
          (got[t].kind = "return" /\ got[t].client # 0) =>
              \E c \in clients : c.id = got[t].client /\ c.api_key # ""

\* C9: after clean-history the table differs from what it was only if the
\* command ran without --dry-run and the operator confirmed; with --dry-run,
\* a declined confirmation, an unknown --user or nothing matching, the table
\* is exactly as before.
C9_DeletesOnlyWhenConfirmed ==
    cli.cmd = "clean-history" =>
        LET unknown  == cli.user # "" /\ ~\E u \in users : u.username = cli.user
            matching == {r \in cli.before :
                           /\ r.created_at < utcnow - cli.days
                           /\ cli.user # "" =>
                                \E u \in users : u.username = cli.user /\ u.id = r.user_id}
        IN  /\ (cli.dry_run \/ ~cli.confirm \/ unknown \/ matching = {}) =>
                   history = cli.before
            /\ history # cli.before => (~cli.dry_run /\ cli.confirm)

C9_Witness ==
    /\ cli.cmd = "clean-history" /\ cli.dry_run
    /\ cli.said = <<"will delete", "dry run">>
    /\ \E r \in cli.before : r.created_at < utcnow - cli.days
    /\ history = cli.before

\* C10: a clean-history run that deleted left exactly the rows that are not
\* older than now - days or, with --user, belong to another user; the count it
\* reports is the number of rows that went.
C10_DeletesExactlySelected ==
    (cli.cmd = "clean-history" /\ Last(cli.said) = "deleted") =>
        LET old(r)  == r.created_at < utcnow - cli.days
            mine(r) == \E u \in users : u.username = cli.user /\ u.id = r.user_id
            goes(r) == old(r) /\ (cli.user # "" => mine(r))
        IN  /\ history = {r \in cli.before : ~goes(r)}
            /\ cli.deleted = Cardinality({r \in cli.before : goes(r)})
            /\ cli.deleted = Cardinality(cli.before) - Cardinality(history)

C10_Witness ==
    /\ cli.cmd = "clean-history" /\ Last(cli.said) = "deleted"
    /\ cli.user = "alice" /\ cli.deleted = 1
    /\ \E r \in history : r.user_id = 2 /\ r.created_at < utcnow - cli.days

\* the rows an export-queries run selects: all, or with --user those of the user
ExportSelected ==
    {q \in cli.before :
        cli.user # "" => \E u \in cli.usersBefore :
                            u.username = cli.user /\ u.id = q.user_id}

\* the run was about a selection: --user, when given, names a user, and
\* nothing failed
ExportRan(format) ==
    /\ cli.cmd = "export-queries" /\ cli.format = format /\ ~cli.raised
    /\ cli.user # "" => \E u \in cli.usersBefore : u.username = cli.user

\* the values of a row in the documented column order
DocumentedColumns(q) ==
    <<ToString(q.id), ToString(q.user_id), q.prompt,
      "2024-01-0" \o ToString(q.created_at + 1) \o "T00:00:00",
      ToString(q.duration_ms), IF q.is_favorited THEN "True" ELSE "False">>

\* C12 (as stated): export-queries --format csv over N selected rows, for
\* every N >= 0, writes a file of N+1 lines: the header
\* id,user_id,prompt,created_at,duration_ms,is_favorited, then one line per row.
C12_CsvLinesNPlusOne ==
    ExportRan("csv") =>
        /\ exported.format = "csv"
        /\ FileLines(exported.records) = Cardinality(ExportSelected) + 1
        /\ exported.records[1] = CsvHeader

\* C12 (amended): export-queries --format csv that ends without error over
\* N >= 1 selected rows writes a file of N+1 CSV records: the header, then one
\* record per selected row with its values in the documented column order; a
\* prompt holding a line break adds a text line.  Over N = 0 rows it writes no
\* file.
C12_CsvRecordsNPlusOne ==
    ExportRan("csv") =>
        LET N == Cardinality(ExportSelected)
            records == exported.records
        IN  IF N = 0
            THEN exported = NoFile /\ Last(cli.said) = "no queries found"
            ELSE /\ exported.format = "csv"
                 /\ Len(records) = N + 1
                 /\ records[1] = <<"id", "user_id", "prompt", "created_at",
                                   "duration_ms", "is_favorited">>
                 /\ \A q \in ExportSelected :
                       Cardinality({i \in 2..(N + 1) :
                                      records[i] = DocumentedColumns(q)}) = 1
                 /\ FileLines(records) =
                       N + 1 + Cardinality({q \in ExportSelected :
                                              q.prompt = "rain in\nKenya"})
                 /\ cli.count = N

C12_Witness ==
    /\ ExportRan("csv") /\ cli.user = "alice"
    /\ Cardinality(ExportSelected) = 2
    /\ Cardinality(cli.before) = 2
    /\ Len(exported.records) = 3
    /\ FileLines(exported.records) = 4

\* no two rows of a User table share a username or an email
NoDuplicateUser(us) ==
    \A u, v \in us : u # v => u.username # v.username /\ u.email # v.email

\* C11: a create-admin run whose username or email is that of an existing
\* user is rejected and leaves User and UserProfile as they were; a
\* create-admin run never makes two rows share a username or an email.
C11_NoDuplicateAdmin ==
    [][cli'.cmd = "create-admin" =>
          /\ (\E u \in users : u.username = cli'.user \/ u.email = cli'.email) =>
                 /\ users' = users /\ profiles' = profiles
                 /\ cli'.raised \/ Last(cli'.said) = "exists"
          /\ NoDuplicateUser(users) => NoDuplicateUser(users')]_vars

\* a run rejected for its email alone
C11_Witness ==
    /\ cli.cmd = "create-admin" /\ Last(cli.said) = "exists"
    /\ \E u \in users : u.email = cli.email
    /\ ~\E u \in users : u.username = cli.user
    /\ users = cli.usersBefore
    /\ NoDuplicateUser(users)

\* C13: a command in whose body an exception occurs catches it, rolls the
\* session back, prints the error and ends without raising.
C13_ErrorsCaughtNotRaised ==
    (cli.cmd # "" /\ Last(cli.said) = "error") =>
        ~cli.raised /\ cli.rolledBack

\* C14: every committed user has exactly one UserProfile, also after runs of
\* create-admin and seed-data that failed at some step.
C14_UserHasProfile ==
    \A u \in users : Cardinality({p \in profiles : p.user_id = u.id}) = 1

\* C19: every ApiKey row refers to a user that exists; a create-api-key run
\* that created a key was given the username of an existing user and the key
\* is that user's; no command removed a user.
C19_ApiKeyOwnerExists ==
    /\ \A k \in apiKeys : \E u \in users : u.id = k.user_id
    /\ (cli.cmd = "create-api-key" /\ Last(cli.said) = "created") =>
          \E u \in users : \E k \in apiKeys :
              u.username = cli.user /\ k.user_id = u.id /\ k.name = cli.name
    /\ (cli.cmd = "create-api-key" /\ Last(cli.said) = "not found") =>
          ~\E u \in users : u.username = cli.user
    /\ \A u \in cli.usersBefore : \E v \in users : v.id = u.id

\* keys exist, one run was turned away for an unknown username, and other
\* commands ran since
C19_Witness ==
    /\ Cardinality(apiKeys) = MaxKeys
    /\ \E k \in apiKeys : \E u \in users : u.id = k.user_id /\ u.username = "admin"
    /\ cli.cmd = "create-api-key" /\ Last(cli.said) = "not found"
    /\ cli.user = "carol"

\* C15: with the beat schedule of create_celery_app(app), at the end of a day
\* the expired-token cleanup was triggered once (at 00:00), the stale-session
\* cleanup once (at 02:00) and the geo-cache refresh four times, consecutive
\* triggers 6 hours apart; during the day none was triggered more often or
\* sooner after its last trigger.
C15_BeatTriggersPerDay ==
    celery.app =>
        /\ beat.fired["cleanup-expired-tokens"] <= 1
        /\ beat.fired["clear-old-sessions"] <= 1
        /\ beat.fired["update-geo-data-cache"] <= 4
        /\ beat.gaps["update-geo-data-cache"] \subseteq {6 * MinutesPerHour}
        /\ beat.next = MinutesPerDay =>
              /\ beat.fired["cleanup-expired-tokens"] = 1
              /\ beat.last["cleanup-expired-tokens"] = 0
              /\ beat.fired["clear-old-sessions"] = 1
              /\ beat.last["clear-old-sessions"] = 2 * MinutesPerHour
              /\ beat.fired["update-geo-data-cache"] = 4

\* the domain of a task of app.geo.tasks, app.llm.tasks or app.auth.tasks
DomainOf(name) ==
    IF Len(name) >= 4 /\ name[1] = "app" /\ name[3] = "tasks"
       /\ name[2] \in {"geo", "llm", "auth"}
    THEN name[2] ELSE None

\* every task of the three modules that was sent is on the queue of its
\* domain and on no other queue
RoutedByDomain ==
    \A q \in DOMAIN queues : \A name \in queues[q] :
        DomainOf(name) # None => q = DomainOf(name)

\* C16 (as stated): every task of app.geo.tasks, app.llm.tasks and
\* app.auth.tasks, the periodic ones included, is on exactly one queue, that
\* of its domain, whichever way the Celery application was made.
C16_RoutedToDomainQueue == RoutedByDomain

\* C16 (amended): in a Celery application that create_celery_app made from a
\* Flask application, every task of the three modules is on exactly one
\* queue, that of its domain; no queue of a domain holds another's task.
C16_RoutedToDomainQueueWithApp ==
    celery.app =>
        /\ RoutedByDomain
        /\ \A q \in {"geo", "llm", "auth"} : \A name \in queues[q] :
              DomainOf(name) = q

C16_Witness ==
    /\ celery.app
    /\ <<"app", "geo", "tasks", "update_geo_data_cache">> \in queues["geo"]
    /\ <<"app", "geo", "tasks", "fetch_features">> \in queues["geo"]
    /\ <<"app", "llm", "tasks", "complete">> \in queues["llm"]
    /\ <<"app", "auth", "tasks", "clear_old_sessions">> \in queues["auth"]
    /\ <<"app", "main", "tasks", "ping">> \in queues["celery"]

\* C17: in the application of create_app an HTTP error with status 400, 403,
\* 404 or 500 is answered with that status, with a JSON body when the path
\* starts with /api/ and with the HTML error page otherwise.
C17_ErrorFormatByPath ==
    response.error \in {400, 403, 404, 500} =>
        /\ response.status = response.error
        /\ response.format =
              IF Len(response.path) >= 2 /\ response.path[1] = "api"
              THEN "json" ELSE "html"

\* C18: whatever the interleaving of the calls of get_openai_client (and of
\* get_huggingface_client) in one process, the calls that returned all
\* returned the same instance, the one the module's default_client holds;
\* no second instance was constructed for the default.
C18_OneDefaultClient ==
    \A kind \in {"openai", "hf"} :
        \A t1, t2 \in DOMAIN got :
            (/\ got[t1].fn = Getter(kind) /\ got[t1].kind = "return"
             /\ got[t2].fn = Getter(kind) /\ got[t2].kind = "return") =>
                /\ got[t1].client = got[t2].client
                /\ got[t1].client = defaultClient[kind]

\* C20: two calls of get_chat_completion that denote the same provider
\* request (model, messages, sampling parameters) have the same cache key,
\* however the arguments are passed, whether a default is passed or left
\* out, and whichever client instance is called.
C20_KeyIsFunctionOfRequest ==
    cacheKeys # << >> =>
        (ProviderRequest(calls[1]) = ProviderRequest(calls[2]) =>
            cacheKeys[1] = cacheKeys[2])

\* the request get_chat_completion sends for the invocation o of a thread
RequestOf(o) ==
    Request(CallOf(o.fn, ClientById(o.self), o.query), ClientById(o.self))

(***************************************************************************)
(* C21: a call of get_chat_completion that is answered from the cache gets *)
(* a response the provider produced for the request this call would have   *)
(* sent: the same effective model, messages and sampling parameters.       *)
(***************************************************************************)
C21_HitServesOwnRequest ==
    \A t \in DOMAIN pc :
        (FinishedChat(t) /\ hit[t].served) => ret[t].resp.req = RequestOf(op[t])

(***************************************************************************)
(* C22: with LLM_CACHE_ENABLED false or absent get_chat_completion neither *)
(* reads nor writes the cache: no step changes the cache, no call is       *)
(* answered from it, and every finished call asked the provider, a         *)
(* returned response being the provider's answer to this very call.        *)
(***************************************************************************)
C22_CacheBypassedWhenDisabled ==
    /\ [](~cacheEnabled =>
            \A t \in DOMAIN pc :
                FinishedChat(t) =>
                    /\ ~hit[t].served
                    /\ Len(tried[t]) >= 1
                    /\ ret[t].kind = "return" /\ ret[t].resp # NoResp =>
                           ret[t].resp.id = CallsFor(op[t].key))
    /\ [][~cacheEnabled => cache' = cache]_vars

\* caching off, an entry for the call in the cache, and the call was
\* answered by the provider's second response, not by the entry
C22_Witness ==
    /\ ~cacheEnabled
    /\ cache = LeftoverCache
    /\ \E t \in DOMAIN pc :
         /\ FinishedChat(t)
         /\ op[t].key \in DOMAIN cache
         /\ ret[t].kind = "return"
         /\ ret[t].resp.id = 2
         /\ ret[t].resp # cache[op[t].key].resp

C24_OneCallForConcurrentTwins ==
    (/\ cacheEnabled
     /\ provider.noError
     /\ op["t1"] = op["t2"]
     /\ \A t \in Requests : FinishedChat(t) /\ ret[t].kind = "return")
    => Cardinality({t \in Requests : tried[t] # <<>>}) <= 1

(***************************************************************************)
(* C25: of two create-admin runs at the same time with the same username   *)
(* or the same email at most one adds a User row, under every order of     *)
(* their queries and commits, and no two User rows share a username or an  *)
(* email.                                                                  *)
(***************************************************************************)
C25_OneOfTwoCreates ==
    /\ NoDuplicateUser(users)
    /\ \A p, q \in Procs :
         (/\ p # q
          /\ proc[p].pc # "idle" /\ proc[q].pc # "idle"
          /\ proc[p].username = proc[q].username \/ proc[p].email = proc[q].email)
         => ~(proc[p].added /\ proc[q].added)

\* the profiles of user u
ProfilesOf(u) == {p \in profiles : p.user_id = u.id}

(***************************************************************************)
(* C26: seed-data is idempotent.  A run the operator declined changes no   *)
(* table; a run that found a user named admin adds no user and no profile; *)
(* and a run that went through leaves at most one user named admin, who    *)
(* has exactly one profile.                                                *)
(***************************************************************************)
C26_SeedDataIdempotent ==
    cli.cmd = "seed-data" =>
        /\ cli.said = <<"cancelled">> =>
               users = cli.usersBefore /\ profiles = cli.profilesBefore
        /\ (\E u \in cli.usersBefore : u.username = "admin") =>
               users = cli.usersBefore /\ profiles = cli.profilesBefore
        /\ (~cli.raised /\ cli.said # <<"cancelled">>) =>
               /\ Cardinality(UserByName("admin")) <= 1
               /\ \A u \in UserByName("admin") : Cardinality(ProfilesOf(u)) = 1

\* the tables a command found are the tables it left
TablesUntouched ==
    /\ users = cli.usersBefore
    /\ profiles = cli.profilesBefore
    /\ apiKeys = cli.keysBefore
    /\ history = cli.before

\* the commands that look a user up by the name given to them
ByUsername == {"reset-password", "create-api-key", "clean-history", "export-queries"}

(***************************************************************************)
(* C27: reset-password, create-api-key, clean-history --user and           *)
(* export-queries --user, given a username no user has, say that the user  *)
(* was not found and leave every table as it was and write no file, unless *)
(* a query raised.                                                         *)
(***************************************************************************)
C27_UnknownUserNoEffect ==
    (/\ cli.cmd \in ByUsername
     /\ Truthy(cli.user)
     /\ ~\E u \in cli.usersBefore : u.username = cli.user)
    => /\ TablesUntouched
       /\ exported = NoFile
       /\ ~cli.raised => cli.said = <<"not found">> /\ cli.deleted = 0

\* create-api-key for carol with users and a key in the tables
C27_Witness ==
    /\ cli.cmd = "create-api-key"
    /\ cli.user = "carol"
    /\ cli.said = <<"not found">>
    /\ users # {}
    /\ apiKeys # {}

(***************************************************************************)
(* C28: export-queries, list-users and check-system leave User,            *)
(* UserProfile, ApiKey and QueryHistory as they found them, whatever they  *)
(* print and whether or not they raise; the rows export-queries wrote to   *)
(* the file are still in QueryHistory.                                     *)
(***************************************************************************)
C28_ReportsChangeNothing ==
    cli.cmd \in {"export-queries", "list-users", "check-system"} => TablesUntouched

\* an export that wrote both rows of QueryHistory
C28_Witness ==
    /\ cli.cmd = "export-queries"
    /\ cli.said = <<"exported">>
    /\ Len(exported.records) >= 2
    /\ Cardinality(history) = 2
    /\ apiKeys # {}

(***************************************************************************)
(* C29: create_app does not wait for the Earth Engine thread.  Once the    *)
(* configuration is loaded create_app goes on to return the application,   *)
(* whatever the thread does and also when the thread never ends; a failure *)
(* inside the thread is logged there and create_app fails only before the  *)
(* thread exists.                                                          *)
(***************************************************************************)
C29_CreateAppDoesNotWait ==
    /\ [](boot.pc = "raised" => boot.ee = "none")
    /\ [](boot.ee = "failed" =>
            /\ boot.pc \in {"started", "returned"}
            /\ \E i \in DOMAIN boot.log :
                 boot.log[i] = "Failed to initialize Earth Engine")
    /\ [](boot.pc = "returned" => app = CreateApp(boot.config_name, app.agent_api))
    /\ (boot.pc = "extensions") ~> (boot.pc = "returned")

\* create_app returned while the thread was running, and the thread failed
\* afterwards
C29_Witness ==
    /\ boot.pc = "returned"
    /\ boot.eeAtReturn = "running"
    /\ boot.ee = "failed"
    /\ app # NoApp

(***************************************************************************)
(* C30: for every key of the dictionary `config` of config3.py the class   *)
(* it names has USE_MOCK_GEO_DATA False and USE_EARTH_ENGINE_AS_DEFAULT    *)
(* True, whatever the environment holds.                                   *)
(***************************************************************************)
C30_MockDataForcedOff ==
    settings.module = "config3" =>
        /\ settings.attrs["USE_MOCK_GEO_DATA"] = [has |-> TRUE, value |-> FALSE]
        /\ settings.attrs["USE_EARTH_ENGINE_AS_DEFAULT"] = [has |-> TRUE, value |-> TRUE]

====
